---------------------------- MODULE Spec2Model ----------------------------
(***************************************************************************)
(* Diff / approval engine of the diff-approve integration.                 *)
(*                                                                         *)
(*   src/src/integrations/diff-approve/DiffApproveProvider.ts              *)
(*       class DiffFile           (one review panel per working file)      *)
(*       class DiffApproveProvider (registry of DiffFile by path)          *)
(*   src/src/integrations/diff-approve/diffApprovePanel.ts                 *)
(*       class DiffApprovePanel   (single panel, own line diff)            *)
(*                                                                         *)
(* A text is a sequence of characters (one-character strings); a line is   *)
(* a text without the newline character.  Conversions between texts and    *)
(* lines (String.split, the tokenizer of the line diff, Array.join) are    *)
(* computed character by character.                                        *)
(***************************************************************************)
EXTENDS Integers, Sequences, FiniteSets, Bags, TLC

VARIABLES
    \* ---- one call of a diff function (specification SpecDiff) ----
    ran,            \* which diff functions have run: subset of {"provider", "panel"}
    content1,       \* old text handed to the diff functions
    content2,       \* new text handed to the diff functions
    changes,        \* the parts diff.diffLines returned to DiffFile.computeDiff
    blocks,         \* the DiffBlock[] DiffFile.computeDiff returned
    panelBlocks,    \* the DiffBlock[] DiffApprovePanel._computeDiff returned
    related,        \* the calls of the scanning findRelatedBlocks: {[id, result]}
    single,         \* the single-panel DiffApproveProvider (specification SpecUnit)
    store,          \* the checkpoint service and its shadow repository (specification SpecStore)
    loop,           \* the main loop of DiffApprovePanel._computeDiff, step by step (specification SpecLoop)
    \* ---- DiffApproveProvider / DiffFile (specification SpecFile) ----
    activeFiles,    \* DiffApproveProvider.activeFiles: path -> DiffFile (0: no entry)
    approvedFiles,  \* DiffApproveProvider.approvedFiles: set of paths
    files,          \* the DiffFile objects some event can still reach, by object id
    panels,         \* the open webview panels, by panel id
    tasks,          \* bag of the async calls suspended at an await
    timers,         \* DiffFile objects with an armed auto-close timer
    nshows,         \* calls of DiffApproveProvider.show so far
    nmsgs,          \* webview messages delivered so far
    closeReport,    \* what the latest closeAllPanels call found (specification SpecClose)
    \* ---- DiffApprovePanel (specification SpecPanel) ----
    currentPanel,   \* DiffApprovePanel.currentPanel: object id (0: undefined)
    reviewPanels,   \* the DiffApprovePanel objects some event can still reach, by id
    file1,          \* text on disk of the original file (_file1Uri)
    file2,          \* text on disk of the modified file (_file2Uri)
    panelTasks,     \* bag of the DiffApprovePanel async calls suspended at an await
    ncreates,       \* calls of DiffApprovePanel.createOrShow so far
    npanelmsgs      \* webview messages delivered to DiffApprovePanel so far

diffVars == <<ran, content1, content2, changes, blocks, panelBlocks, related, single, store, loop>>

fileVars == <<activeFiles, approvedFiles, files, panels, tasks, timers, nshows, nmsgs,
              closeReport>>

reviewVars == <<currentPanel, reviewPanels, file1, file2, panelTasks, ncreates, npanelmsgs>>

vars == <<ran, content1, content2, changes, blocks, panelBlocks, related, single, store, loop,
          activeFiles, approvedFiles, files, panels, tasks, timers, nshows, nmsgs, closeReport,
          currentPanel, reviewPanels, file1, file2, panelTasks, ncreates, npanelmsgs>>

-----------------------------------------------------------------------------
(* Bounds of the model *)

\* longest generated text, in characters
MaxLen == 3

NL == "\n"

\* characters the generated texts are built from
Alphabet == {"a", "b", NL}

RECURSIVE TextsUpTo(_)
TextsUpTo(n) ==
    IF n = 0 THEN {<<>>}
    ELSE LET shorter == TextsUpTo(n - 1)
         IN  shorter \cup {Append(t, c) : t \in {s \in shorter : Len(s) = n - 1}, c \in Alphabet}

Texts == TextsUpTo(MaxLen)

\* calls of DiffApproveProvider.show in one run
MaxShows == 2

\* webview messages delivered in one run
MaxMsgs == 2

\* largest blockId a webview message carries
MaxBlockId == 2

\* async calls suspended at the same time
MaxTasks == 2

\* calls of DiffApprovePanel.createOrShow in one run
MaxCreates == 2

\* webview messages delivered to DiffApprovePanel in one run
MaxPanelMsgs == 3

\* webview messages delivered to DiffApprovePanel in one run of SpecEdit
MaxEditMsgs == 2

\* Scenario A of the specification: old = "a\nb\nc\n", new = "a\nx\nc\n"
ScenarioAOld == <<"a", NL, "b", NL, "c", NL>>
ScenarioANew == <<"a", NL, "x", NL, "c", NL>>

\* the input pairs one diff call is drawn from
DiffInputs == (Texts \X Texts) \cup {<<ScenarioAOld, ScenarioANew>>}

-----------------------------------------------------------------------------
(* String helpers *)

\* String.prototype.split("\n"): the pieces between newlines, always >= 1 piece
RECURSIVE Split(_)
Split(s) ==
    IF s = <<>> THEN << <<>> >>
    ELSE IF Head(s) = NL THEN << <<>> >> \o Split(Tail(s))
    ELSE LET r == Split(Tail(s))
         IN  << <<Head(s)>> \o Head(r) >> \o Tail(r)

\* String.prototype.endsWith("\n")
EndsWithNL(s) == Len(s) > 0 /\ s[Len(s)] = NL

\* Array.prototype.join("\n")
RECURSIVE JoinNL(_)
JoinNL(ls) ==
    IF ls = <<>> THEN <<>>
    ELSE IF Len(ls) = 1 THEN ls[1]
    ELSE ls[1] \o <<NL>> \o JoinNL(Tail(ls))

\* concatenation of a sequence of texts
RECURSIVE Concat(_)
Concat(ts) == IF ts = <<>> THEN <<>> ELSE Head(ts) \o Concat(Tail(ts))

\* The line sequence of a text: its lines without their terminators.  A
\* final newline terminates the last line and opens no further one.
LinesOf(s) ==
    LET p == Split(s)
    IN  IF p[Len(p)] = <<>> THEN SubSeq(p, 1, Len(p) - 1) ELSE p

-----------------------------------------------------------------------------
(* diff.diffLines of the "diff" package (library outside the repository).   *)
(* Modelled by its contract: the two texts are cut into line tokens (each    *)
(* line with its newline), a shortest edit script over the tokens is chosen, *)
(* and consecutive tokens of the same kind are merged into one part          *)
(* {added, removed, value, count}.  Identical inputs give one unchanged part *)
(* (of count 0 and empty value for two empty texts).                         *)

\* line tokens: every line keeps its terminating newline
RECURSIVE Tokenize(_)
Tokenize(s) ==
    IF s = <<>> THEN <<>>
    ELSE LET first == Head(Split(s))
             n     == Len(first)
         IN  IF n = Len(s) THEN <<s>>
             ELSE <<SubSeq(s, 1, n + 1)>> \o Tokenize(SubSeq(s, n + 2, Len(s)))

\* every edit script turning token sequence o into n: ops "U", "R", "A"
RECURSIVE EditScripts(_, _)
EditScripts(o, n) ==
    IF o = <<>> /\ n = <<>> THEN {<<>>}
    ELSE (IF o # <<>>
            THEN {<<[op |-> "R", tok |-> Head(o)]>> \o s : s \in EditScripts(Tail(o), n)}
            ELSE {})
         \cup
         (IF n # <<>>
            THEN {<<[op |-> "A", tok |-> Head(n)]>> \o s : s \in EditScripts(o, Tail(n))}
            ELSE {})
         \cup
         (IF o # <<>> /\ n # <<>> /\ Head(o) = Head(n)
            THEN {<<[op |-> "U", tok |-> Head(o)]>> \o s : s \in EditScripts(Tail(o), Tail(n))}
            ELSE {})

EditCost(s) == Cardinality({i \in 1..Len(s) : s[i].op # "U"})

ShortestScripts(o, n) ==
    LET all == EditScripts(o, n)
    IN  {s \in all : \A t \in all : EditCost(s) <= EditCost(t)}

\* merge consecutive ops of the same kind into parts
RECURSIVE MergeParts(_)
MergeParts(s) ==
    IF s = <<>> THEN <<>>
    ELSE LET rest == MergeParts(Tail(s))
             h    == Head(s)
             one  == [added |-> h.op = "A", removed |-> h.op = "R",
                      value |-> h.tok, count |-> 1]
         IN  IF rest # <<>> /\ rest[1].added = one.added /\ rest[1].removed = one.removed
             THEN <<[rest[1] EXCEPT !.value = h.tok \o @, !.count = @ + 1]>> \o Tail(rest)
             ELSE <<one>> \o rest

\* the set of results diff.diffLines(content1, content2) may return
diffLines(c1, c2) ==
    IF c1 = c2
    THEN {<<[added |-> FALSE, removed |-> FALSE, value |-> c2, count |-> Len(Tokenize(c2))]>>}
    ELSE {MergeParts(s) : s \in ShortestScripts(Tokenize(c1), Tokenize(c2))}

-----------------------------------------------------------------------------
(* DiffFile.computeDiff (DiffApproveProvider.ts 282-369)                     *)

\* part.value.split("\n").filter(line => line.length > 0 || part.value.endsWith("\n"))
PartLines(value) ==
    SelectSeq(Split(value), LAMBDA line : Len(line) > 0 \/ EndsWithNL(value))

\* blockId++
NextBlockIdStuck(id) == id
NextBlockId(id) == id + 1

\* the condition under which an added/removed part opens a new block
StartsNewBlock(st, part) ==
    LET currentLineNumber == IF part.added THEN st.newLineNumber ELSE st.oldLineNumber
    IN  \/ st.pendingBlock = <<>>
        \/ currentLineNumber - st.lastChangeLineNumber > 1
        \/ (part.added /\ st.pendingBlock[1].type = "addition")
        \/ (part.removed /\ st.pendingBlock[1].type = "deletion")

\* the type of the pending block after a part was folded into it
PromotedTypeKept(pb, part) == pb.type
PromotedType(pb, part) ==
    IF (part.added /\ pb.type = "deletion") \/ (part.removed /\ pb.type = "addition")
    THEN "change"
    ELSE pb.type

\* loop body for an added or removed part
ChangeStep(st, part) ==
    LET lines  == PartLines(part.value)
        fresh  == StartsNewBlock(st, part)
        pushed == IF fresh /\ st.pendingBlock # <<>>
                  THEN st.blocks \o st.pendingBlock ELSE st.blocks
        pb     == IF fresh
                  THEN [id |-> st.blockId,
                        type |-> IF part.added THEN "addition" ELSE "deletion",
                        oldLines |-> <<>>, newLines |-> <<>>,
                        oldStart |-> st.oldLineNumber, newStart |-> st.newLineNumber]
                  ELSE [st.pendingBlock[1] EXCEPT !.type = PromotedType(st.pendingBlock[1], part)]
        id1    == IF fresh THEN NextBlockId(st.blockId) ELSE st.blockId
    IN  IF part.added
        THEN [st EXCEPT !.blocks = pushed, !.blockId = id1,
                        !.pendingBlock = <<[pb EXCEPT !.newLines = @ \o lines]>>,
                        !.newLineNumber = @ + part.count,
                        !.lastChangeLineNumber = st.newLineNumber + part.count - 1]
        ELSE [st EXCEPT !.blocks = pushed, !.blockId = id1,
                        !.pendingBlock = <<[pb EXCEPT !.oldLines = @ \o lines]>>,
                        !.oldLineNumber = @ + part.count,
                        !.lastChangeLineNumber = st.oldLineNumber + part.count - 1]

\* loop body for an unchanged part
ContextStep(st, part) ==
    LET flushed      == st.blocks \o st.pendingBlock
        contextLines == PartLines(part.value)
        emit         == Len(contextLines) > 0
    IN  [st EXCEPT !.blocks = IF emit
                              THEN Append(flushed,
                                     [id |-> st.blockId, type |-> "context",
                                      oldLines |-> contextLines, newLines |-> contextLines,
                                      oldStart |-> st.oldLineNumber,
                                      newStart |-> st.newLineNumber])
                              ELSE flushed,
                    !.blockId = IF emit THEN NextBlockId(st.blockId) ELSE st.blockId,
                    !.pendingBlock = <<>>,
                    !.oldLineNumber = @ + part.count,
                    !.newLineNumber = @ + part.count,
                    !.lastChangeLineNumber = -1]

RECURSIVE FoldParts(_, _)
FoldParts(st, parts) ==
    IF parts = <<>> THEN st
    ELSE FoldParts(IF Head(parts).added \/ Head(parts).removed
                   THEN ChangeStep(st, Head(parts))
                   ELSE ContextStep(st, Head(parts)),
                   Tail(parts))

\* computeDiff after diff.diffLines returned `parts`
computeDiffOn(parts) ==
    LET st0 == [blocks |-> <<>>, blockId |-> 0, oldLineNumber |-> 1, newLineNumber |-> 1,
                pendingBlock |-> <<>>, lastChangeLineNumber |-> -1]
        st  == FoldParts(st0, parts)
    IN  st.blocks \o st.pendingBlock

\* the results computeDiff(content1, content2) may return
computeDiff(c1, c2) == {computeDiffOn(p) : p \in diffLines(c1, c2)}

-----------------------------------------------------------------------------
(* DiffApprovePanel._computeDiff (diffApprovePanel.ts 145-271)               *)

\* width of the window searched for the next matching line
SearchWindow == 10

Min(a, b) == IF a < b THEN a ELSE b

\* a search that takes the current position as the match point whenever both
\* sides have a line left, without comparing the lines
NextMatchAtCursor(lines1, lines2, i, j) ==
    IF i < Len(lines1) /\ j < Len(lines2) THEN <<i, j>> ELSE <<-1, -1>>

\* the first (searchI, searchJ) of the nested search loops with equal lines,
\* or <<-1, -1>>; indices are 0-based as in the source
NextMatch(lines1, lines2, i, j) ==
    LET hits == {p \in (i .. Min(i + SearchWindow, Len(lines1)) - 1)
                        \X (j .. Min(j + SearchWindow, Len(lines2)) - 1) :
                    lines1[p[1] + 1] = lines2[p[2] + 1]}
    IN  IF hits = {} THEN <<-1, -1>>
        ELSE CHOOSE p \in hits :
                \A q \in hits : p[1] < q[1] \/ (p[1] = q[1] /\ p[2] <= q[2])

\* lines1.slice(from, to) with 0-based bounds
Slice(ls, from, to) == SubSeq(ls, from + 1, to)

PanelBlock(id, type, i, j, oldLines, newLines) ==
    [id |-> id, type |-> type, oldLines |-> oldLines, newLines |-> newLines,
     oldStart |-> i + 1, newStart |-> j + 1]

\* the loop variables after an iteration
PanelState(i, j, bs, blockId) == [i |-> i, j |-> j, bs |-> bs, blockId |-> blockId]

\* the loop condition (158)
PanelRunning(lines1, lines2, i, j) == i < Len(lines1) \/ j < Len(lines2)

\* one iteration of the main loop (159-265), entered with the loop condition true
PanelIteration(lines1, lines2, i, j, bs, blockId) ==
    IF i < Len(lines1) /\ j < Len(lines2) /\ lines1[i + 1] = lines2[j + 1]
    THEN \* lines match: extend (or open) a context block
         LET open == bs = <<>> \/ bs[Len(bs)].type # "context"
             bs1  == IF open
                     THEN Append(bs, PanelBlock(blockId, "context", i, j, <<>>, <<>>))
                     ELSE bs
             bs2  == [bs1 EXCEPT ![Len(bs1)].oldLines = Append(@, lines1[i + 1]),
                                 ![Len(bs1)].newLines = Append(@, lines2[j + 1])]
         IN  PanelState(i + 1, j + 1, bs2,
                       IF open THEN blockId + 1 ELSE blockId)
    ELSE LET m == NextMatch(lines1, lines2, i, j)
             nextMatchOld == m[1]
             nextMatchNew == m[2]
         IN  IF nextMatchOld = -1
             THEN IF i < Len(lines1) /\ j < Len(lines2)
                  THEN PanelState(i + 1, j + 1,
                         Append(bs, PanelBlock(blockId, "change", i, j,
                                               <<lines1[i + 1]>>, <<lines2[j + 1]>>)),
                         blockId + 1)
                  ELSE IF i < Len(lines1)
                  THEN PanelState(i + 1, j,
                         Append(bs, PanelBlock(blockId, "deletion", i, j,
                                               <<lines1[i + 1]>>, <<>>)),
                         blockId + 1)
                  ELSE PanelState(i, j + 1,
                         Append(bs, PanelBlock(blockId, "addition", i, j,
                                               <<>>, <<lines2[j + 1]>>)),
                         blockId + 1)
             ELSE PanelState(nextMatchOld, nextMatchNew,
                    Append(bs,
                      IF nextMatchOld > i /\ nextMatchNew > j
                      THEN PanelBlock(blockId, "change", i, j,
                                      Slice(lines1, i, nextMatchOld),
                                      Slice(lines2, j, nextMatchNew))
                      ELSE IF nextMatchOld > i
                      THEN PanelBlock(blockId, "deletion", i, j,
                                      Slice(lines1, i, nextMatchOld), <<>>)
                      ELSE PanelBlock(blockId, "addition", i, j,
                                      <<>>, Slice(lines2, j, nextMatchNew))),
                    blockId + 1)

RECURSIVE PanelLoop(_, _, _, _, _, _)
PanelLoop(lines1, lines2, i, j, bs, blockId) ==
    IF ~PanelRunning(lines1, lines2, i, j) THEN bs
    ELSE LET n == PanelIteration(lines1, lines2, i, j, bs, blockId)
         IN  PanelLoop(lines1, lines2, n.i, n.j, n.bs, n.blockId)

Panel_computeDiff(c1, c2) == PanelLoop(Split(c1), Split(c2), 0, 0, <<>>, 0)

\* the loop before _computeDiff is called; iterations and found are ghost
\* fields: the passes through the loop body so far, and whether one of them
\* took the match-point branch (250-264)
IdleLoop ==
    [pc |-> "idle", i |-> 0, j |-> 0, bs |-> <<>>, blockId |-> 0,
     iterations |-> 0, found |-> FALSE]

-----------------------------------------------------------------------------
(* Specification SpecDiff: the two diff functions called on bounded inputs *)

\* the working files a review can be opened for
Paths == {"w1"}

\* no DiffFile exists
\* closeAllPanels has not been called
NoCloseReport == [called |-> FALSE, registered |-> {}, open |-> {}, threw |-> {}]

IdleFile ==
    /\ activeFiles = [p \in Paths |-> 0]
    /\ approvedFiles = {}
    /\ files = <<>>
    /\ panels = <<>>
    /\ tasks = EmptyBag
    /\ timers = {}
    /\ nshows = 0
    /\ nmsgs = 0
    /\ closeReport = NoCloseReport

\* no DiffApprovePanel exists
IdlePanel ==
    /\ currentPanel = 0
    /\ reviewPanels = <<>>
    /\ panelTasks = EmptyBag
    /\ ncreates = 0
    /\ npanelmsgs = 0

\* the single-panel DiffApproveProvider before show: no panel, no diff
IdleSingle ==
    [pendingBlocks |-> {},     \* this.pendingBlocks
     panelOpen |-> FALSE,      \* DiffApproveProvider.currentPanel is defined
     handlers |-> EmptyBag,    \* the message handlers suspended at an await
     msgs |-> 0]               \* webview messages delivered so far

\* operations of the checkpoint service in one run
MaxStoreOps == 4

\* the files of the workspace the shadow repository tracks
StorePaths == {"w1", "w2"}

\* the contents a tracked file can have
StoreContents == 0..1

\* the commit initShadowGit creates of the workspace state
BaseHash == 1

\* the checkpoint service after initShadowGit: one commit, a clean working
\* tree, no checkpoint, no verified checkpoint (0: undefined)
IdleStore ==
    [tree |-> [p \in StorePaths |-> 0],                  \* the working tree
     trees |-> <<[p \in StorePaths |-> 0]>>,             \* the tree of every commit
     head |-> BaseHash,                                  \* HEAD of the shadow repository
     checkpoints |-> <<>>,                               \* _checkpoints
     lastVerifiedCheckpoint |-> 0,                       \* _lastVerifiedCheckpoint
     config |-> 0,                                       \* git config roo.lastVerifiedCheckpoint
     events |-> <<>>,                                    \* the events emitted so far
     result |-> [op |-> "none"],                         \* what the latest call returned
     activeViews |-> <<>>,                               \* activeViews of every checkpointDiff call
     opened |-> <<>>,                                    \* changes.length of every checkpointDiff call
     nops |-> 0]                                         \* calls so far

InitDiff ==
    /\ ran = {}
    /\ \E p \in DiffInputs : content1 = p[1] /\ content2 = p[2]
    /\ changes = <<>>
    /\ blocks = <<>>
    /\ panelBlocks = <<>>
    /\ related = {}
    /\ single = IdleSingle
    /\ store = IdleStore
    /\ loop = IdleLoop
    /\ IdleFile
    /\ IdlePanel
    /\ file1 = <<>>
    /\ file2 = <<>>

\* DiffFile.computeDiff(content1, content2)
CallComputeDiff ==
    /\ "provider" \notin ran
    /\ \E p \in diffLines(content1, content2) :
          /\ changes' = p
          /\ blocks' = computeDiffOn(p)
    /\ ran' = ran \cup {"provider"}
    /\ UNCHANGED <<content1, content2, panelBlocks, related, single, store, loop>>
    /\ UNCHANGED <<fileVars, reviewVars>>

\* DiffApprovePanel._computeDiff(content1, content2)
CallPanelComputeDiff ==
    /\ "panel" \notin ran
    /\ panelBlocks' = Panel_computeDiff(content1, content2)
    /\ ran' = ran \cup {"panel"}
    /\ UNCHANGED <<content1, content2, changes, blocks, related, single, store, loop>>
    /\ UNCHANGED <<fileVars, reviewVars>>

NextDiff == CallComputeDiff \/ CallPanelComputeDiff

SpecDiff == InitDiff /\ [][NextDiff]_vars

-----------------------------------------------------------------------------
(* Specification SpecLoop: DiffApprovePanel._computeDiff run one iteration of
   its main loop at a time *)

\* _computeDiff(content1, content2) is entered: lines 149-156
EnterPanelComputeDiff ==
    /\ loop.pc = "idle"
    /\ loop' = [IdleLoop EXCEPT !.pc = "running"]
    /\ UNCHANGED <<ran, content1, content2, changes, blocks, panelBlocks, related, single, store>>
    /\ UNCHANGED <<fileVars, reviewVars>>

\* one pass through the body of the while loop (158-265)
PanelIterate ==
    /\ loop.pc = "running"
    /\ PanelRunning(Split(content1), Split(content2), loop.i, loop.j)
    /\ LET lines1 == Split(content1)
           lines2 == Split(content2)
           n == PanelIteration(lines1, lines2, loop.i, loop.j, loop.bs, loop.blockId)
           differ == ~(loop.i < Len(lines1) /\ loop.j < Len(lines2)
                       /\ lines1[loop.i + 1] = lines2[loop.j + 1])
       IN  loop' = [loop EXCEPT !.i = n.i, !.j = n.j, !.bs = n.bs, !.blockId = n.blockId,
                                !.iterations = @ + 1,
                                !.found = @ \/ (differ /\ NextMatch(lines1, lines2,
                                                                   loop.i, loop.j)[1] # -1)]
    /\ UNCHANGED <<ran, content1, content2, changes, blocks, panelBlocks, related, single, store>>
    /\ UNCHANGED <<fileVars, reviewVars>>

\* the loop condition fails: return blocks (267)
ReturnPanelComputeDiff ==
    /\ loop.pc = "running"
    /\ ~PanelRunning(Split(content1), Split(content2), loop.i, loop.j)
    /\ loop' = [loop EXCEPT !.pc = "done"]
    /\ panelBlocks' = loop.bs
    /\ ran' = ran \cup {"panel"}
    /\ UNCHANGED <<content1, content2, changes, blocks, related, single, store>>
    /\ UNCHANGED <<fileVars, reviewVars>>

NextLoop == EnterPanelComputeDiff \/ PanelIterate \/ ReturnPanelComputeDiff

SpecLoop == InitDiff /\ [][NextLoop]_vars

\* the function is a synchronous loop on one thread: once entered, the next
\* iteration or the return is always taken
SpecLoopLive == SpecLoop /\ WF_vars(NextLoop)

-----------------------------------------------------------------------------
(* Properties of the diff functions *)

\* concatenation of the old-side / new-side lines of a block list
RECURSIVE OldSide(_)
OldSide(bs) == IF bs = <<>> THEN <<>> ELSE Head(bs).oldLines \o OldSide(Tail(bs))

RECURSIVE NewSide(_)
NewSide(bs) == IF bs = <<>> THEN <<>> ELSE Head(bs).newLines \o NewSide(Tail(bs))

\* C1: the blocks of the diffLines-based computeDiff, concatenated in emission
\* order, give back exactly the lines of the old text on the old side and the
\* lines of the new text on the new side.
C1_RoundTrip ==
    "provider" \in ran =>
        /\ OldSide(blocks) = LinesOf(content1)
        /\ NewSide(blocks) = LinesOf(content2)

\* C2: Scenario A ("a\nb\nc\n" against "a\nx\nc\n") yields exactly a context
\* block ["a"], a change block ["b"] / ["x"] and a context block ["c"].
C2_ScenarioA ==
    ("provider" \in ran /\ content1 = ScenarioAOld /\ content2 = ScenarioANew) =>
        /\ Len(blocks) = 3
        /\ blocks[1].type = "context" /\ blocks[1].oldLines = << <<"a">> >>
                                      /\ blocks[1].newLines = << <<"a">> >>
        /\ blocks[2].type = "change"  /\ blocks[2].oldLines = << <<"b">> >>
                                      /\ blocks[2].newLines = << <<"x">> >>
        /\ blocks[3].type = "context" /\ blocks[3].oldLines = << <<"c">> >>
                                      /\ blocks[3].newLines = << <<"c">> >>

\* what C3 asks of one result for identical inputs
IdentityResult(bs, a) ==
    IF a = <<>> THEN bs = <<>>
    ELSE /\ Len(bs) = 1
         /\ bs[1].type = "context"
         /\ bs[1].oldLines = LinesOf(a)
         /\ bs[1].newLines = LinesOf(a)

\* C3: a text diffed against itself gives no block when it is empty and
\* otherwise exactly one context block holding all its lines, in both diff
\* functions.
C3_Identity ==
    content1 = content2 =>
        /\ "provider" \in ran => IdentityResult(blocks, content1)
        /\ "panel" \in ran => IdentityResult(panelBlocks, content1)

KindOk(b) ==
    CASE b.type = "context"  -> b.oldLines = b.newLines
      [] b.type = "addition" -> b.oldLines = <<>> /\ b.newLines # <<>>
      [] b.type = "deletion" -> b.newLines = <<>> /\ b.oldLines # <<>>
      [] b.type = "change"   -> b.oldLines # <<>> /\ b.newLines # <<>>
      [] OTHER -> FALSE

\* C4: every block returned by either diff function satisfies the invariant of
\* its kind (context: both sides equal; addition: old side empty, new side
\* not; deletion: new side empty, old side not; change: both sides non-empty).
C4_KindInvariant ==
    /\ \A k \in 1..Len(blocks) : KindOk(blocks[k])
    /\ \A k \in 1..Len(panelBlocks) : KindOk(panelBlocks[k])

\* C4 witness: both functions have run and the provider result holds a change
\* block that was promoted from a deletion, next to a context block.
C4_Witness ==
    /\ ran = {"provider", "panel"}
    /\ Len(changes) >= 3
    /\ \E k \in 1..Len(blocks) : blocks[k].type = "change"
    /\ \E k \in 1..Len(blocks) : blocks[k].type = "context"
    /\ \E k \in 1..Len(panelBlocks) : panelBlocks[k].type \in {"addition", "deletion"}

\* C5: the provider blocks tile both files: the first starts at line 1 on both
\* sides and each next block starts where the previous one ends.
C5_Tiling ==
    "provider" \in ran =>
        /\ blocks # <<>> => blocks[1].oldStart = 1 /\ blocks[1].newStart = 1
        /\ \A k \in 1..(Len(blocks) - 1) :
              /\ blocks[k + 1].oldStart = blocks[k].oldStart + Len(blocks[k].oldLines)
              /\ blocks[k + 1].newStart = blocks[k].newStart + Len(blocks[k].newLines)

\* C6: the block at 0-based position i of a returned list has id i, in both
\* diff functions.
C6_SequentialIds ==
    /\ \A k \in 1..Len(blocks) : blocks[k].id = k - 1
    /\ \A k \in 1..Len(panelBlocks) : panelBlocks[k].id = k - 1

\* C6 witness: a change block that was opened (and numbered) before a later
\* part was folded into it is followed by another block.
C6_Witness ==
    /\ ran = {"provider", "panel"}
    /\ \E k \in 1..(Len(blocks) - 1) : blocks[k].type = "change" /\ k > 1
    /\ Len(panelBlocks) >= 2

\* what C7 asks of one result for a wholly new / wholly deleted file
WholeFileResult(bs, a, b) ==
    /\ (a = <<>> /\ b # <<>>) =>
          /\ Len(bs) = 1
          /\ bs[1].type = "addition"
          /\ bs[1].oldLines = <<>>
          /\ bs[1].newLines = LinesOf(b)
    /\ (a # <<>> /\ b = <<>>) =>
          /\ Len(bs) = 1
          /\ bs[1].type = "deletion"
          /\ bs[1].newLines = <<>>
          /\ bs[1].oldLines = LinesOf(a)

\* C7: against an empty old text a non-empty text gives exactly one addition
\* block with all its lines, and against an empty new text exactly one
\* deletion block with all its lines, in both diff functions.
C7_WholeFile ==
    /\ "provider" \in ran => WholeFileResult(blocks, content1, content2)
    /\ "panel" \in ran => WholeFileResult(panelBlocks, content1, content2)

-----------------------------------------------------------------------------
(* DiffApproveProvider and DiffFile (DiffApproveProvider.ts 25-232, 558-629) *)
(*                                                                           *)
(* A handler is an async function: it runs to its next await, is suspended   *)
(* as a task, and is resumed when the awaited callback settles.  Between two *)
(* awaits it runs without interruption.                                      *)

\* the texts a review is opened on: (old version, working file)
SessionInputs ==
    { <<<<"a", NL>>, <<"a", NL>>>>,                      \* nothing changed
      <<<<"a", NL>>, <<"b", NL>>>>,                      \* one change
      <<<<NL, "a", NL>>, <<"a", NL, "b">>>> }            \* deletion, context, addition

\* what a webview shows of a diff: id and type of every block
Kinds(bs) == [k \in 1..Len(bs) |-> [id |-> bs[k].id, type |-> bs[k].type]]

\* the diffs updateContent can compute
SessionDiffs == {Kinds(bs) : bs \in UNION {computeDiff(p[1], p[2]) : p \in SessionInputs}}

\* diffContent.blocks.filter(block => block.type !== "context").map(block => block.id)
AllIds(bs) == {bs[k].id : k \in 1..Len(bs)}
NonContextIds(bs) == {bs[k].id : k \in {j \in 1..Len(bs) : bs[j].type # "context"}}

\* new DiffFile(extensionUri, filePath, onBlockApprove, onAllBlocksProcessed)
NewDiffFile(path) ==
    [filePath |-> path,
     pendingBlocks |-> {},
     hasCalledAllBlocksProcessed |-> FALSE,
     panel |-> 0,            \* this.panel: an open panel, or 0 for a disposed one
     shown |-> <<>>,         \* blocks of the most recently computed diff
     before |-> {},          \* pendingBlocks as the latest updateContent found it
     completions |-> 0,      \* invocations of onAllBlocksProcessed
     skipped |-> FALSE,      \* "onAllBlocksProcessed already called, skipping" was logged
     cancelled |-> FALSE,    \* "Panel closed with pending blocks" was logged since the last load
     denied |-> {},          \* pending blocks a deny or denyAll resolved since the last load
     armedPanel |-> 0]       \* this.panel when the auto-close timer was last armed

\* the pending set updateContent installs
LoadedPendingMerged(old, bs) == old \cup NonContextIds(bs)
LoadedPending(old, bs) == NonContextIds(bs)

\* DiffFile.updateContent after both files were read
updateContent(file, bs) ==
    [file EXCEPT !.pendingBlocks = LoadedPending(@, bs),
                 !.shown = bs,
                 !.before = file.pendingBlocks,
                 !.cancelled = FALSE,
                 !.denied = {}]

\* the whole state the handlers act on, as one record
World == [activeFiles |-> activeFiles, approvedFiles |-> approvedFiles, files |-> files,
          panels |-> panels, tasks |-> tasks, timers |-> timers]

Task(kind, f, pc, blockId) ==
    [kind |-> kind, file |-> f, pc |-> pc, blockId |-> blockId,
     live |-> TRUE, snap |-> {}, last |-> -1,
     start |-> {}]    \* pendingBlocks when an approveAll/denyAll message was received

\* a call is suspended / a suspended call ends / a suspended call moves on
Suspend(w, t) == [w EXCEPT !.tasks = @ (+) SetToBag({t})]
Finish(w, t) == [w EXCEPT !.tasks = @ (-) SetToBag({t})]
Continue(w, t, u) == Suspend(Finish(w, t), u)

\* DiffApproveProvider.markFileAsApproved
markFileAsApproved(w, path) == [w EXCEPT !.approvedFiles = @ \cup {path}]

\* DiffApproveProvider.removeActiveFile
removeActiveFile(w, path) == [w EXCEPT !.activeFiles[path] = 0]

\* DiffFile objects an event can still reach: registered, or owner of an open
\* panel, of a suspended call or of an armed timer
Reachable(w) ==
    {f \in DOMAIN w.files :
        \/ \E path \in DOMAIN w.activeFiles : w.activeFiles[path] = f
        \/ \E q \in DOMAIN w.panels : w.panels[q].file = f
        \/ \E t \in BagToSet(w.tasks) : t.file = f
        \/ f \in w.timers}

\* objects no event can reach any more take no further part and are dropped
\* (by every step but the one that loads a diff, whose result stays visible)
Collect(w) == [w EXCEPT !.files = [f \in Reachable(w) |-> w.files[f]]]

\* the smallest object id not in use
FreshId(used) == CHOOSE n \in 1..(Cardinality(used) + 1) :
                    n \notin used /\ \A m \in 1..(n - 1) : m \in used

\* DiffFile.disposeResources: every listener this DiffFile registered is disposed
disposeResources(w, f) ==
    [w EXCEPT !.panels = [p \in DOMAIN w.panels |->
                            IF w.panels[p].file = f
                            THEN [w.panels[p] EXCEPT !.wired = 0]
                            ELSE w.panels[p]]]

\* the guard of the completion signal: !this.hasCalledAllBlocksProcessed
MayCompleteAlways(file) == TRUE
MayComplete(file) == ~file.hasCalledAllBlocksProcessed

\* hasCalledAllBlocksProcessed = true; markFileAsApproved; onAllBlocksProcessed()
InvokeAllBlocksProcessed(w, f) ==
    markFileAsApproved(
        [w EXCEPT !.files[f].hasCalledAllBlocksProcessed = TRUE,
                  !.files[f].completions = @ + 1],
        w.files[f].filePath)

\* the onDidDispose callback of a DiffFile panel
onDidDispose(w, f) ==
    LET file == w.files[f]
        w1   == IF file.pendingBlocks # {} THEN [w EXCEPT !.files[f].cancelled = TRUE]
                ELSE IF MayComplete(file) THEN InvokeAllBlocksProcessed(w, f)
                ELSE w
    IN  disposeResources(removeActiveFile(w1, file.filePath), f)

\* panel.dispose(): a live panel closes and fires its onDidDispose listeners
DisposePanel(w, p) ==
    IF p \notin DOMAIN w.panels THEN w
    ELSE LET f  == w.panels[p].file
             w1 == [w EXCEPT !.panels = [q \in DOMAIN w.panels \ {p} |-> w.panels[q]],
                             !.files[f].panel = IF @ = p THEN 0 ELSE @]
         IN  IF w.panels[p].wired > 0 THEN onDidDispose(w1, f) ELSE w1

\* DiffApproveProvider.closeAllPanels: dispose() of every registered DiffFile
\* (an entry its own dispose removed is not visited again), then the registry
\* is cleared
\* a loop that the first throwing dispose() ends
RECURSIVE CloseEachStopping(_, _, _)
CloseEachStopping(w, paths, throwers) ==
    IF paths = {} THEN w
    ELSE LET path == CHOOSE x \in paths : TRUE
             f    == w.activeFiles[path]
         IN  IF path \in throwers THEN w
             ELSE CloseEachStopping(IF f = 0 THEN w ELSE DisposePanel(w, w.files[f].panel),
                                    paths \ {path}, throwers)

\* the loop of closeAllPanels; throwers: the paths whose diffFile.dispose()
\* throws (the catch logs it and the loop goes on)
RECURSIVE CloseEachWith(_, _, _)
CloseEachWith(w, paths, throwers) ==
    IF paths = {} THEN w
    ELSE LET path == CHOOSE x \in paths : TRUE
             f    == w.activeFiles[path]
         IN  CloseEachWith(IF f = 0 \/ path \in throwers THEN w
                           ELSE DisposePanel(w, w.files[f].panel),
                           paths \ {path}, throwers)

CloseEach(w, paths) == CloseEachWith(w, paths, {})

closeAllPanelsWith(w, throwers) ==
    [CloseEachWith(w, DOMAIN w.activeFiles, throwers) EXCEPT
        !.activeFiles = [path \in DOMAIN w.activeFiles |-> 0]]

closeAllPanels(w) ==
    [CloseEach(w, DOMAIN w.activeFiles) EXCEPT
        !.activeFiles = [path \in DOMAIN w.activeFiles |-> 0]]

\* the tail of both message branches from the test of the completion flag on:
\* the handler t either awaits onAllBlocksProcessed or ends
CompletionCheck(w, t) ==
    IF MayComplete(w.files[t.file])
    THEN Continue(InvokeAllBlocksProcessed(w, t.file), t, [t EXCEPT !.pc = "awaitAll"])
    ELSE Finish([w EXCEPT !.files[t.file].skipped = TRUE], t)

\* the approve/deny branch without its test of this.pendingBlocks.size
AfterBlockLoopUnchecked(w, t, thrown) ==
    IF thrown THEN Finish(w, t) ELSE CompletionCheck(w, t)

\* approve/deny branch after the loop over the related blocks: postMessage on
\* this.panel (thrown: the webview of a disposed panel refused the access),
\* then the completion check when nothing is pending
AfterBlockLoop(w, t, thrown) ==
    IF thrown THEN Finish(w, t)
    ELSE IF w.files[t.file].pendingBlocks = {} THEN CompletionCheck(w, t)
    ELSE Finish(w, t)

\* approveAll/denyAll branch after the loop over pendingBlocks
AfterAllLoop(w, t, thrown) ==
    IF thrown THEN Finish(w, t)
    ELSE CompletionCheck(
             [w EXCEPT !.files[t.file].pendingBlocks = {},
                       !.files[t.file].denied =
                           IF t.kind = "denyAll" THEN @ \cup w.files[t.file].pendingBlocks ELSE @],
             t)

\* the Set a suspended approveAll/denyAll loop iterates: this.pendingBlocks as
\* it was when the loop began (updateContent installs a new Set object)
IteratedSet(w, t) == IF t.live THEN w.files[t.file].pendingBlocks ELSE t.snap

\* ids the iteration has not reached yet (insertion order is ascending id)
Remaining(w, t) == {b \in IteratedSet(w, t) : b > t.last}

MinOf(S) == CHOOSE x \in S : \A y \in S : x <= y

\* a webview message reaches one registered handler of DiffFile f: the handler
\* runs to its first await (or to its end)
StartHandler(w, f, type, blockId) ==
    IF type \in {"approve", "deny"}
    THEN \* findRelatedBlocks returns the one block; onBlockApprove is awaited
         Suspend(w, Task(type, f, "awaitBlock", blockId))
    ELSE LET t == [Task(type, f, "awaitIter", -1) EXCEPT !.start = w.files[f].pendingBlocks]
         IN  IF w.files[f].pendingBlocks = {}
             THEN AfterAllLoop(Suspend(w, t), t, FALSE)
             ELSE Suspend(w, [t EXCEPT !.last = MinOf(w.files[f].pendingBlocks)])

RECURSIVE StartHandlers(_, _, _, _, _)
StartHandlers(w, f, type, blockId, n) ==
    IF n = 0 THEN w
    ELSE StartHandlers(StartHandler(w, f, type, blockId), f, type, blockId, n - 1)

\* a disposed panel's webview may refuse postMessage by throwing
MayThrow(w, f) == IF w.files[f].panel = 0 THEN {TRUE, FALSE} ELSE {FALSE}

SetRegistry(w) ==
    /\ activeFiles' = w.activeFiles
    /\ approvedFiles' = w.approvedFiles
    /\ files' = w.files
    /\ panels' = w.panels
    /\ tasks' = w.tasks
    /\ timers' = w.timers

SetWorld(w) == SetRegistry(w) /\ UNCHANGED closeReport

\* a loop over this.pendingBlocks keeps iterating the Set it started on when
\* updateContent replaces this.pendingBlocks by a new Set
Detach(t, f, old) ==
    IF t.file = f /\ t.pc = "awaitIter" /\ t.live
    THEN [t EXCEPT !.live = FALSE, !.snap = old]
    ELSE t

RECURSIVE DetachAll(_, _, _, _)
DetachAll(ts, todo, f, old) ==
    IF todo = {} THEN EmptyBag
    ELSE LET t == CHOOSE x \in todo : TRUE
         IN  [u \in {Detach(t, f, old)} |-> ts[t]] (+) DetachAll(ts, todo \ {t}, f, old)

-----------------------------------------------------------------------------
(* Specification SpecFile: shows, webview messages, closes and timers *)

IdleDiff ==
    /\ ran = {}
    /\ content1 = <<>>
    /\ content2 = <<>>
    /\ changes = <<>>
    /\ blocks = <<>>
    /\ panelBlocks = <<>>
    /\ related = {}
    /\ single = IdleSingle
    /\ store = IdleStore
    /\ loop = IdleLoop

InitFile == IdleDiff /\ IdleFile /\ IdlePanel /\ file1 = <<>> /\ file2 = <<>>

\* DiffApproveProvider.show up to the first await of DiffFile.updateContent
ProviderShow(path) ==
    /\ nshows < MaxShows
    /\ BagCardinality(tasks) < MaxTasks
    /\ LET known == activeFiles[path] # 0
           f     == IF known THEN activeFiles[path] ELSE FreshId(DOMAIN files)
           p     == FreshId(DOMAIN panels)
       IN  /\ files' = [g \in DOMAIN files \cup {f} |->
                          [(IF g = f /\ ~known THEN NewDiffFile(path) ELSE files[g])
                             EXCEPT !.panel = IF g = f THEN p ELSE @]]
           /\ activeFiles' = [activeFiles EXCEPT ![path] = f]
           /\ panels' = [q \in DOMAIN panels \cup {p} |->
                           IF q = p THEN [file |-> f, wired |-> 0] ELSE panels[q]]
           /\ tasks' = tasks (+) SetToBag({Task("show", f, "reading", -1)})
    /\ nshows' = nshows + 1
    /\ UNCHANGED <<approvedFiles, timers, nmsgs, closeReport>>
    /\ UNCHANGED <<diffVars, reviewVars>>

\* DiffFile.show resumes: updateContent finishes (readOk: both files were read)
\* and the message and dispose listeners are registered on this.panel
ShowResume(t, readOk, bs) ==
    /\ BagIn(t, tasks)
    /\ t.kind = "show"
    /\ LET f    == t.file
           p    == files[f].panel
           rest == tasks (-) SetToBag({t})
           w    == [World EXCEPT
                      !.files[f] = IF readOk THEN updateContent(@, bs) ELSE @,
                      !.panels = IF p # 0 THEN [panels EXCEPT ![p].wired = @ + 1] ELSE @,
                      !.tasks = IF readOk
                                THEN DetachAll(rest, BagToSet(rest), f, files[f].pendingBlocks)
                                ELSE rest]
       IN  SetWorld(w)
    /\ UNCHANGED <<nshows, nmsgs>>
    /\ UNCHANGED <<diffVars, reviewVars>>

\* the webview of panel p posts a message; every handler registered on the
\* panel runs to its first await
ReceiveMessage(p, type, blockId) ==
    /\ nmsgs < MaxMsgs
    /\ p \in DOMAIN panels
    /\ panels[p].wired > 0
    /\ BagCardinality(tasks) + panels[p].wired <= MaxTasks
    /\ SetWorld(Collect(StartHandlers(World, panels[p].file, type, blockId, panels[p].wired)))
    /\ nmsgs' = nmsgs + 1
    /\ UNCHANGED nshows
    /\ UNCHANGED <<diffVars, reviewVars>>

\* the awaited onBlockApprove of an approve/deny handler settles
ResumeBlock(t, resolved) ==
    /\ BagIn(t, tasks)
    /\ t.pc = "awaitBlock"
    /\ IF resolved
       THEN \E thrown \in MayThrow(World, t.file) :
               SetWorld(Collect(AfterBlockLoop(
                   [World EXCEPT
                       !.files[t.file].pendingBlocks = @ \ {t.blockId},
                       !.files[t.file].denied =
                           IF t.kind = "deny"
                           THEN @ \cup ({t.blockId} \cap files[t.file].pendingBlocks)
                           ELSE @],
                   t, thrown)))
       ELSE SetWorld(Collect(Finish(World, t)))
    /\ UNCHANGED <<nshows, nmsgs>>
    /\ UNCHANGED <<diffVars, reviewVars>>

\* the awaited onBlockApprove of an approveAll/denyAll loop settles
ResumeIter(t, resolved) ==
    /\ BagIn(t, tasks)
    /\ t.pc = "awaitIter"
    /\ LET rest == Remaining(World, t)
       IN  IF ~resolved
           THEN SetWorld(Collect(Finish(World, t)))
           ELSE IF rest # {}
           THEN SetWorld(Continue(World, t, [t EXCEPT !.last = MinOf(rest)]))
           ELSE \E thrown \in MayThrow(World, t.file) :
                   SetWorld(Collect(AfterAllLoop(World, t, thrown)))
    /\ UNCHANGED <<nshows, nmsgs>>
    /\ UNCHANGED <<diffVars, reviewVars>>

\* the awaited onAllBlocksProcessed settles: on success the auto-close timer
\* is armed
ResumeAll(t, resolved) ==
    /\ BagIn(t, tasks)
    /\ t.pc = "awaitAll"
    /\ SetWorld(Collect([Finish(World, t) EXCEPT
                            !.timers = IF resolved THEN @ \cup {t.file} ELSE @,
                            !.files[t.file].armedPanel =
                                IF resolved THEN files[t.file].panel ELSE @]))
    /\ UNCHANGED <<nshows, nmsgs>>
    /\ UNCHANGED <<diffVars, reviewVars>>

\* the auto-close timer fires: this.dispose()
TimerFire(f) ==
    /\ f \in timers
    /\ SetWorld(Collect(DisposePanel([World EXCEPT !.timers = @ \ {f}], files[f].panel)))
    /\ UNCHANGED <<nshows, nmsgs>>
    /\ UNCHANGED <<diffVars, reviewVars>>

\* the user closes panel p
UserClose(p) ==
    /\ p \in DOMAIN panels
    /\ SetWorld(Collect(DisposePanel(World, p)))
    /\ UNCHANGED <<nshows, nmsgs>>
    /\ UNCHANGED <<diffVars, reviewVars>>

\* DiffApproveProvider.closeAllPanels is called
CloseAllPanels ==
    /\ SetWorld(Collect(closeAllPanels(World)))
    /\ UNCHANGED <<nshows, nmsgs>>
    /\ UNCHANGED <<diffVars, reviewVars>>

\* DiffApproveProvider.resetApprovedFiles is called
ResetApprovedFiles ==
    /\ approvedFiles' = {}
    /\ UNCHANGED <<activeFiles, files, panels, tasks, timers, nshows, nmsgs, closeReport>>
    /\ UNCHANGED <<diffVars, reviewVars>>

MessageTypes == {"approve", "deny", "approveAll", "denyAll"}

NextFile ==
    \/ \E path \in Paths : ProviderShow(path)
    \/ \E t \in BagToSet(tasks), bs \in SessionDiffs : ShowResume(t, TRUE, bs)
    \/ \E t \in BagToSet(tasks) : ShowResume(t, FALSE, <<>>)
    \/ \E p \in DOMAIN panels, type \in MessageTypes, b \in 0..MaxBlockId :
          ReceiveMessage(p, type, b)
    \/ \E t \in BagToSet(tasks), r \in BOOLEAN : ResumeBlock(t, r)
    \/ \E t \in BagToSet(tasks), r \in BOOLEAN : ResumeIter(t, r)
    \/ \E t \in BagToSet(tasks), r \in BOOLEAN : ResumeAll(t, r)
    \/ \E f \in timers : TimerFire(f)
    \/ \E p \in DOMAIN panels : UserClose(p)
    \/ CloseAllPanels
    \/ ResetApprovedFiles

SpecFile == InitFile /\ [][NextFile]_vars

\* every suspended call is resumed at some time and every armed timer fires;
\* whether a callback resolves or rejects stays open, and so does what the
\* user does
Progress ==
    \/ \E t \in BagToSet(tasks), bs \in SessionDiffs : ShowResume(t, TRUE, bs)
    \/ \E t \in BagToSet(tasks) : ShowResume(t, FALSE, <<>>)
    \/ \E t \in BagToSet(tasks), r \in BOOLEAN : ResumeBlock(t, r)
    \/ \E t \in BagToSet(tasks), r \in BOOLEAN : ResumeIter(t, r)
    \/ \E t \in BagToSet(tasks), r \in BOOLEAN : ResumeAll(t, r)
    \/ \E f \in timers : TimerFire(f)

SpecFileLive == InitFile /\ [][NextFile]_vars /\ WF_vars(Progress)

-----------------------------------------------------------------------------
(* Specification SpecGroup: the sessions of SpecFile on a diff in which a  *)
(* deletion block is immediately followed by an addition block             *)

\* two lines are added ahead of a one-line edit, so that the added part of the
\* edit is more than one line number past the removed part
GroupOld == <<"a", NL, "b">>
GroupNew == <<NL, NL, "a", NL, "a">>

GroupDiffs == {Kinds(bs) : bs \in computeDiff(GroupOld, GroupNew)}

\* the largest block id a webview message names in SpecGroup
MaxGroupId == 3

NextGroup ==
    \/ \E path \in Paths : ProviderShow(path)
    \/ \E t \in BagToSet(tasks), bs \in GroupDiffs : ShowResume(t, TRUE, bs)
    \/ \E t \in BagToSet(tasks) : ShowResume(t, FALSE, <<>>)
    \/ \E p \in DOMAIN panels, type \in MessageTypes, b \in 0..MaxGroupId :
          ReceiveMessage(p, type, b)
    \/ \E t \in BagToSet(tasks), r \in BOOLEAN : ResumeBlock(t, r)
    \/ \E t \in BagToSet(tasks), r \in BOOLEAN : ResumeIter(t, r)
    \/ \E t \in BagToSet(tasks), r \in BOOLEAN : ResumeAll(t, r)
    \/ \E f \in timers : TimerFire(f)
    \/ \E p \in DOMAIN panels : UserClose(p)
    \/ CloseAllPanels
    \/ ResetApprovedFiles

SpecGroup == InitFile /\ [][NextGroup]_vars

-----------------------------------------------------------------------------
(* Specification SpecPanel: DiffApprovePanel (diffApprovePanel.ts)           *)
(*                                                                         *)
(* A message handler runs to its next await and is then kept in panelTasks *)
(* until it is resumed; handlers of other messages may run in between.     *)

\* the (original, modified) file pairs a review starts from
PanelInputs ==
    { << <<"a">>, <<"a">> >>,
      << <<"a", NL, "b">>, <<"b">> >>,
      << <<"a", NL, "b">>, <<"b", NL, "a">> >> }

\* a DiffApprovePanel as its constructor leaves it
NewPanel ==
    [loaded |-> FALSE,       \* _diffContent is defined
     blocks |-> <<>>,        \* _diffContent.blocks
     pendingBlocks |-> {},   \* _pendingBlocks
     disposed |-> FALSE,     \* the webview panel is disposed, its listeners removed
     opens |-> 0,            \* calls of _openModifiedFile
     autoOpens |-> 0,        \* calls of _openModifiedFile by _checkIfAllBlocksProcessed
     reverts |-> <<>>,       \* types of the blocks whose revert was written, in order
     failed |-> {},          \* pending ids whose latest deny threw, not resolved since
     approved |-> {}]        \* ids an approve took out of _pendingBlocks since the
                             \* blocks were stored

PanelWorld ==
    [cur |-> currentPanel, insts |-> reviewPanels, f2 |-> file2, tasks |-> panelTasks]

PanelTask(kind, i, pc, diffs, rest) ==
    [kind |-> kind, inst |-> i, pc |-> pc, diffs |-> diffs, rest |-> rest]

Spawn(w, t) == [w EXCEPT !.tasks = @ (+) SetToBag({t})]

Retire(w, t) == [w EXCEPT !.tasks = @ (-) SetToBag({t})]

\* DiffApprovePanel.dispose
Panel_dispose(w, i) == [w EXCEPT !.cur = 0, !.insts[i].disposed = TRUE]

\* _openModifiedFile up to its first await
openModifiedFile(w, i) ==
    Spawn([w EXCEPT !.insts[i].opens = @ + 1], PanelTask("open", i, "opening", <<>>, <<>>))

\* _checkIfAllBlocksProcessed
checkIfAllBlocksProcessed(w, i) ==
    IF w.insts[i].pendingBlocks = {}
    THEN openModifiedFile([w EXCEPT !.insts[i].autoOpens = @ + 1], i)
    ELSE w

\* _loadDiffContent up to its await (readOk: both files were read), called
\* by handler `kind`
loadDiffContent(w, i, kind, readOk) ==
    IF readOk
    THEN Spawn(w, PanelTask(kind, i, "assign", Panel_computeDiff(file1, w.f2), <<>>))
    ELSE Spawn(w, PanelTask(kind, i, "after", <<>>, <<>>))

\* Array.prototype.splice(start, deleteCount, ...items)
Splice(ls, start, deleteCount, items) ==
    LET st == Min(start, Len(ls))
        dc == Min(deleteCount, Len(ls) - st)
    IN  SubSeq(ls, 1, st) \o items \o SubSeq(ls, st + dc + 1, Len(ls))

\* a revert that splices at newStart rather than at newStart - 1
RevertOffByOne(lines, block) ==
    Splice(lines, block.newStart, Len(block.newLines), block.oldLines)

\* the revert of one block on the lines of the modified file
Revert(lines, block) ==
    CASE block.type = "addition" -> Splice(lines, block.newStart - 1, Len(block.newLines), <<>>)
      [] block.type = "deletion" -> Splice(lines, block.newStart - 1, 0, block.oldLines)
      [] block.type = "change"   -> Splice(lines, block.newStart - 1, Len(block.newLines),
                                           block.oldLines)
      [] OTHER -> lines

FindBlock(bs, blockId) == {k \in 1..Len(bs) : bs[k].id = blockId}

\* the synchronous part of _handleApproval; io is what the file system does
\* to the deny ("ok", "readfail", "writefail"), readOk what it does to the
\* reload
handleApproval(w, i, blockId, action, updateUI, io, readOk) ==
    LET me == w.insts[i]
        ks == FindBlock(me.blocks, blockId)
    IN  IF ~me.loaded \/ ks = {} THEN w
        ELSE IF action = "approve"
        THEN checkIfAllBlocksProcessed(
                 [w EXCEPT !.insts[i].pendingBlocks = @ \ {blockId},
                           !.insts[i].approved = @ \cup ({blockId} \cap me.pendingBlocks),
                           !.insts[i].failed = @ \ {blockId}], i)
        ELSE IF io # "ok"
        THEN [w EXCEPT !.insts[i].failed = @ \cup ({blockId} \cap me.pendingBlocks)]
        ELSE LET block == me.blocks[CHOOSE k \in ks : \A l \in ks : k <= l]
                 w1 == [w EXCEPT !.f2 = JoinNL(Revert(Split(w.f2), block)),
                                 !.insts[i].pendingBlocks = @ \ {blockId},
                                 !.insts[i].reverts = Append(@, block.type),
                                 !.insts[i].failed = @ \ {blockId}]
             IN  IF updateUI THEN loadDiffContent(w1, i, "deny", readOk)
                 ELSE checkIfAllBlocksProcessed(w1, i)

\* the ids of the non-context blocks, in block order
RECURSIVE NonContextSeq(_)
NonContextSeq(bs) ==
    IF bs = <<>> THEN <<>>
    ELSE (IF Head(bs).type # "context" THEN <<Head(bs).id>> ELSE <<>>) \o NonContextSeq(Tail(bs))

\* one turn of the loop of _handleDenyAll, then the await that follows it
DenyAllTurn(w, i, ids, io, readOk) ==
    IF ids = <<>> THEN loadDiffContent(w, i, "denyAll", readOk)
    ELSE Spawn(handleApproval(w, i, Head(ids), "deny", FALSE, io, readOk),
               PanelTask("denyAll", i, "loop", <<>>, Tail(ids)))

\* an approveAll that reverts the first non-context block before it clears
\* the pending set
handleApproveAllReverting(w, i, thrown) ==
    LET me == w.insts[i]
        ids == NonContextSeq(me.blocks)
    IN  IF ~me.loaded THEN w
        ELSE [w EXCEPT !.insts[i].pendingBlocks = {},
                       !.f2 = IF ids = <<>> THEN @
                              ELSE JoinNL(Revert(Split(@),
                                       me.blocks[CHOOSE k \in FindBlock(me.blocks, Head(ids)) : TRUE]))]

\* _handleApproveAll
handleApproveAll(w, i, thrown) ==
    IF ~w.insts[i].loaded THEN w
    ELSE LET w1 == [w EXCEPT !.insts[i].pendingBlocks = {}, !.insts[i].failed = {}]
         IN  IF thrown THEN w1 ELSE checkIfAllBlocksProcessed(w1, i)

\* _loadDiffContent resumes after its await of _computeDiff and stores the diff
AssignStep(w, t) ==
    Spawn([Retire(w, t) EXCEPT !.insts[t.inst].loaded = TRUE,
                               !.insts[t.inst].blocks = t.diffs,
                               !.insts[t.inst].approved = {}],
          [t EXCEPT !.pc = "after", !.diffs = <<>>])

\* a handler resumes after its await of _loadDiffContent (thrown: postMessage
\* threw)
AfterLoadStep(w0, t, thrown) ==
    LET i == t.inst
        w == Retire(w0, t)
        me == w.insts[i]
    IN  CASE t.kind = "getContent" ->
               IF me.loaded
               THEN [w EXCEPT !.insts[i].pendingBlocks = NonContextIds(me.blocks),
                              !.insts[i].failed = {}]
               ELSE w
          [] t.kind = "deny" ->
               IF thrown THEN w ELSE checkIfAllBlocksProcessed(w, i)
          [] OTHER ->
               LET w1 == [w EXCEPT !.insts[i].pendingBlocks = {}]
               IN  IF thrown THEN w1 ELSE checkIfAllBlocksProcessed(w1, i)

\* the handler of one webview message up to its first await
StartPanelHandler(w, i, command, blockId, action, io, readOk) ==
    CASE command = "approve" -> handleApproval(w, i, blockId, action, TRUE, io, readOk)
      [] command = "approveAll" -> handleApproveAll(w, i, FALSE)
      [] command = "denyAll" ->
           IF ~w.insts[i].loaded THEN w
           ELSE DenyAllTurn(w, i, NonContextSeq(w.insts[i].blocks), io, readOk)
      [] command = "getContent" -> loadDiffContent(w, i, "getContent", readOk)
      [] OTHER -> openModifiedFile(w, i)

\* webview.postMessage may throw once the panel is disposed
PanelMayThrow(w, i) == IF w.insts[i].disposed THEN {TRUE, FALSE} ELSE {FALSE}

IoOutcomes == {"ok", "readfail", "writefail"}

\* objects no event can reach any more are dropped
PanelCollect(w) ==
    LET keep == {i \in DOMAIN w.insts :
                    \/ ~w.insts[i].disposed
                    \/ w.cur = i
                    \/ \E t \in BagToSet(w.tasks) : t.inst = i}
    IN  [w EXCEPT !.insts = [i \in keep |-> w.insts[i]]]

SetPanelWorld(w) ==
    /\ currentPanel' = w.cur
    /\ reviewPanels' = w.insts
    /\ file2' = w.f2
    /\ panelTasks' = w.tasks
    /\ UNCHANGED file1

InitPanel ==
    /\ IdleDiff
    /\ IdleFile
    /\ IdlePanel
    /\ file1 = <<>>
    /\ file2 = <<>>

\* DiffApprovePanel.createOrShow; the first call names the two files, later
\* calls name the same files again
createOrShow(p) ==
    /\ ncreates < MaxCreates
    /\ IF ncreates = 0
       THEN file1' = p[1] /\ file2' = p[2]
       ELSE UNCHANGED <<file1, file2>>
    /\ IF currentPanel # 0
       THEN UNCHANGED <<currentPanel, reviewPanels>>
       ELSE LET i == FreshId(DOMAIN reviewPanels)
            IN  /\ currentPanel' = i
                /\ reviewPanels' = [j \in DOMAIN reviewPanels \cup {i} |->
                                      IF j = i THEN NewPanel ELSE reviewPanels[j]]
    /\ ncreates' = ncreates + 1
    /\ UNCHANGED <<panelTasks, npanelmsgs>>
    /\ UNCHANGED <<diffVars, fileVars>>

PanelCommands == {"approve", "approveAll", "denyAll", "getContent", "openFile"}

\* the webview of panel i posts a message; its handler runs to its first await
PanelReceive(i, command, blockId, action, io, readOk) ==
    /\ npanelmsgs < MaxPanelMsgs
    /\ i \in DOMAIN reviewPanels
    /\ ~reviewPanels[i].disposed
    /\ BagCardinality(panelTasks) < MaxTasks
    /\ SetPanelWorld(PanelCollect(
           StartPanelHandler(PanelWorld, i, command, blockId, action, io, readOk)))
    /\ npanelmsgs' = npanelmsgs + 1
    /\ UNCHANGED ncreates
    /\ UNCHANGED <<diffVars, fileVars>>

\* _loadDiffContent resumes after its await of _computeDiff and stores the diff
PanelAssign(t) ==
    /\ BagIn(t, panelTasks)
    /\ t.pc = "assign"
    /\ SetPanelWorld(AssignStep(PanelWorld, t))
    /\ UNCHANGED <<ncreates, npanelmsgs>>
    /\ UNCHANGED <<diffVars, fileVars>>

\* a handler resumes after its await of _loadDiffContent
PanelAfterLoad(t, thrown) ==
    /\ BagIn(t, panelTasks)
    /\ t.pc = "after"
    /\ thrown \in PanelMayThrow(PanelWorld, t.inst)
    /\ SetPanelWorld(PanelCollect(AfterLoadStep(PanelWorld, t, thrown)))
    /\ UNCHANGED <<ncreates, npanelmsgs>>
    /\ UNCHANGED <<diffVars, fileVars>>

\* the loop of _handleDenyAll resumes after its await of _handleApproval
PanelDenyNext(t, io, readOk) ==
    /\ BagIn(t, panelTasks)
    /\ t.pc = "loop"
    /\ SetPanelWorld(PanelCollect(
           DenyAllTurn(Retire(PanelWorld, t), t.inst, t.rest, io, readOk)))
    /\ UNCHANGED <<ncreates, npanelmsgs>>
    /\ UNCHANGED <<diffVars, fileVars>>

\* _openModifiedFile resumes: the document was opened and shown (the panel
\* disposes itself) or one of the two calls failed
PanelOpened(t, resolved) ==
    /\ BagIn(t, panelTasks)
    /\ t.pc = "opening"
    /\ LET w == Retire(PanelWorld, t)
       IN  SetPanelWorld(PanelCollect(IF resolved THEN Panel_dispose(w, t.inst) ELSE w))
    /\ UNCHANGED <<ncreates, npanelmsgs>>
    /\ UNCHANGED <<diffVars, fileVars>>

\* the user closes the panel: onDidDispose calls dispose()
PanelUserClose(i) ==
    /\ i \in DOMAIN reviewPanels
    /\ ~reviewPanels[i].disposed
    /\ SetPanelWorld(PanelCollect(Panel_dispose(PanelWorld, i)))
    /\ UNCHANGED <<ncreates, npanelmsgs>>
    /\ UNCHANGED <<diffVars, fileVars>>

NextPanel ==
    \/ \E p \in PanelInputs : createOrShow(p)
    \/ \E i \in DOMAIN reviewPanels, c \in PanelCommands, b \in 0..MaxBlockId,
          a \in {"approve", "deny"}, io \in IoOutcomes, ok \in BOOLEAN :
          PanelReceive(i, c, b, a, io, ok)
    \/ \E t \in BagToSet(panelTasks) : PanelAssign(t)
    \/ \E t \in BagToSet(panelTasks), thrown \in BOOLEAN : PanelAfterLoad(t, thrown)
    \/ \E t \in BagToSet(panelTasks), io \in IoOutcomes, ok \in BOOLEAN :
          PanelDenyNext(t, io, ok)
    \/ \E t \in BagToSet(panelTasks), r \in BOOLEAN : PanelOpened(t, r)
    \/ \E i \in DOMAIN reviewPanels : PanelUserClose(i)

SpecPanel == InitPanel /\ [][NextPanel]_vars

-----------------------------------------------------------------------------
(* Specification SpecEdit: DiffApprovePanel on every pair of bounded texts, *)
(* each webview message handled to its end before the next arrives, on a   *)
(* file system that does not fail.                                         *)

\* the (original, modified) file pairs
EditInputs == Texts \X Texts

\* every suspended handler (not the opening of the modified file) is resumed
\* until none is left
RECURSIVE RunHandlers(_)
RunHandlers(w) ==
    LET ts == {t \in BagToSet(w.tasks) : t.pc # "opening"}
    IN  IF ts = {} THEN w
        ELSE LET t == CHOOSE x \in ts : TRUE
             IN  RunHandlers(
                   CASE t.pc = "assign" -> AssignStep(w, t)
                     [] t.pc = "after" -> AfterLoadStep(w, t, FALSE)
                     [] OTHER -> DenyAllTurn(Retire(w, t), t.inst, t.rest, "ok", TRUE))

\* DiffApprovePanel.createOrShow on a pair of files
EditOpen(p) ==
    /\ ncreates = 0
    /\ createOrShow(p)

\* the webview of panel i posts a message and its handler runs to its end
EditMessage(i, command, blockId, action) ==
    /\ npanelmsgs < MaxEditMsgs
    /\ i \in DOMAIN reviewPanels
    /\ ~reviewPanels[i].disposed
    /\ SetPanelWorld(PanelCollect(RunHandlers(
           StartPanelHandler(PanelWorld, i, command, blockId, action, "ok", TRUE))))
    /\ npanelmsgs' = npanelmsgs + 1
    /\ UNCHANGED ncreates
    /\ UNCHANGED <<diffVars, fileVars>>

NextEdit ==
    \/ \E p \in EditInputs : EditOpen(p)
    \/ \E i \in DOMAIN reviewPanels, c \in PanelCommands, b \in 0..MaxBlockId,
          a \in {"approve", "deny"} : EditMessage(i, c, b, a)
    \/ \E t \in BagToSet(panelTasks), r \in BOOLEAN : PanelOpened(t, r)

SpecEdit == InitPanel /\ [][NextEdit]_vars

-----------------------------------------------------------------------------
(* Specification SpecReview: a run uses one of the two review classes.  The *)
(* classes share no state, so each is explored from the common idle state.  *)

NextReview ==
    \/ ncreates = 0 /\ NextFile
    \/ nshows = 0 /\ NextPanel

SpecReview == InitPanel /\ [][NextReview]_vars

-----------------------------------------------------------------------------
(* Specification SpecClose: the registry of DiffApproveProvider with two   *)
(* working files: shows, closes, removeActiveFile and closeAllPanels       *)

ClosePaths == {"w1", "w2"}

InitClose ==
    /\ IdleDiff
    /\ activeFiles = [p \in ClosePaths |-> 0]
    /\ approvedFiles = {}
    /\ files = <<>>
    /\ panels = <<>>
    /\ tasks = EmptyBag
    /\ timers = {}
    /\ nshows = 0
    /\ nmsgs = 0
    /\ closeReport = NoCloseReport
    /\ IdlePanel
    /\ file1 = <<>>
    /\ file2 = <<>>

\* the paths with a registered DiffFile
Registered == {path \in DOMAIN activeFiles : activeFiles[path] # 0}

\* DiffApproveProvider.closeAllPanels is called; the dispose() of the
\* DiffFiles of throwers throws
CloseAllPanelsWith(throwers) ==
    /\ throwers \subseteq Registered
    /\ SetRegistry(Collect(closeAllPanelsWith(World, throwers)))
    /\ closeReport' =
          [called |-> TRUE,
           registered |-> Registered,
           open |-> {path \in Registered : files[activeFiles[path]].panel \in DOMAIN panels},
           threw |-> throwers]
    /\ UNCHANGED <<nshows, nmsgs>>
    /\ UNCHANGED <<diffVars, reviewVars>>

\* DiffApproveProvider.removeActiveFile(path) is called
RemoveActiveFile(path) ==
    /\ SetWorld(removeActiveFile(World, path))
    /\ UNCHANGED <<nshows, nmsgs>>
    /\ UNCHANGED <<diffVars, reviewVars>>

NextClose ==
    \/ \E path \in ClosePaths : ProviderShow(path)
    \/ \E t \in BagToSet(tasks), bs \in SessionDiffs : ShowResume(t, TRUE, bs)
    \/ \E t \in BagToSet(tasks) : ShowResume(t, FALSE, <<>>)
    \/ \E p \in DOMAIN panels : UserClose(p)
    \/ \E throwers \in SUBSET ClosePaths : CloseAllPanelsWith(throwers)
    \/ \E path \in ClosePaths : RemoveActiveFile(path)

SpecClose == InitClose /\ [][NextClose]_vars

-----------------------------------------------------------------------------
(* Specification SpecRelated: the scanning findRelatedBlocks of the        *)
(* single-panel DiffApproveProvider, called on the diffs computeDiff       *)
(* returns                                                                 *)

\* the blocks of bs from index i backwards up to a context block, in order
RECURSIVE ScanBack(_, _)
ScanBack(bs, i) ==
    IF i < 1 \/ bs[i].type = "context" THEN <<>>
    ELSE Append(ScanBack(bs, i - 1), bs[i])

\* the blocks of bs from index i forwards up to a context block
RECURSIVE ScanForward(_, _)
ScanForward(bs, i) ==
    IF i > Len(bs) \/ bs[i].type = "context" THEN <<>>
    ELSE <<bs[i]>> \o ScanForward(bs, i + 1)

\* a findRelatedBlocks that returns the target block alone
findRelatedBlocksSingle(loaded, bs, blockId) ==
    IF ~loaded \/ FindBlock(bs, blockId) = {} THEN <<>>
    ELSE <<bs[CHOOSE k \in FindBlock(bs, blockId) : \A l \in FindBlock(bs, blockId) : k <= l]>>

\* findRelatedBlocks(blockId) on this.diffContent.blocks = bs (loaded:
\* this.diffContent is defined)
findRelatedBlocks(loaded, bs, blockId) ==
    IF ~loaded \/ FindBlock(bs, blockId) = {} THEN <<>>
    ELSE LET targetIndex == CHOOSE k \in FindBlock(bs, blockId) :
                                \A l \in FindBlock(bs, blockId) : k <= l
         IN  ScanBack(bs, targetIndex) \o ScanForward(bs, targetIndex + 1)

\* the (old, new) texts the diffs are computed from
RelatedInputs ==
    DiffInputs \cup {<<GroupOld, GroupNew>>, <<GroupNew, GroupOld>>}

InitRelated ==
    /\ ran = {}
    /\ \E p \in RelatedInputs : content1 = p[1] /\ content2 = p[2]
    /\ changes = <<>>
    /\ blocks = <<>>
    /\ panelBlocks = <<>>
    /\ related = {}
    /\ single = IdleSingle
    /\ store = IdleStore
    /\ loop = IdleLoop
    /\ IdleFile
    /\ IdlePanel
    /\ file1 = <<>>
    /\ file2 = <<>>

\* findRelatedBlocks(blockId) is called and its result kept
CallFindRelatedBlocks(blockId) ==
    /\ \A q \in related : q.id # blockId
    /\ related' = related \cup
           {[id |-> blockId,
             result |-> findRelatedBlocks("provider" \in ran, blocks, blockId)]}
    /\ UNCHANGED <<ran, content1, content2, changes, blocks, panelBlocks, single, store, loop>>
    /\ UNCHANGED <<fileVars, reviewVars>>

NextRelated ==
    \/ CallComputeDiff
    \/ \E b \in 0..MaxGroupId : "provider" \in ran /\ CallFindRelatedBlocks(b)

SpecRelated == InitRelated /\ [][NextRelated]_vars

-----------------------------------------------------------------------------
(* Specification SpecUnit: the message handler of the single-panel         *)
(* DiffApproveProvider, which resolves the blocks findRelatedBlocks        *)
(* returns one after the other                                             *)

\* a suspended message handler: cur is the id whose onBlockApprove is awaited,
\* rest the ids of the group still to come, done the ids this handler has
\* resolved already
UnitTask(type, all, cur, rest, pc) ==
    [type |-> type, all |-> all, cur |-> cur, rest |-> rest, pc |-> pc, done |-> {}]

\* the ids of a block list, in order
RECURSIVE IdSeq(_)
IdSeq(bs) == IF bs = <<>> THEN <<>> ELSE <<Head(bs).id>> \o IdSeq(Tail(bs))

UnitInputs == {<<GroupOld, GroupNew>>, <<GroupNew, GroupOld>>}

InitUnit ==
    /\ ran = {}
    /\ \E p \in UnitInputs : content1 = p[1] /\ content2 = p[2]
    /\ changes = <<>>
    /\ blocks = <<>>
    /\ panelBlocks = <<>>
    /\ related = {}
    /\ single = IdleSingle
    /\ store = IdleStore
    /\ loop = IdleLoop
    /\ IdleFile
    /\ IdlePanel
    /\ file1 = <<>>
    /\ file2 = <<>>

\* show: the panel is created, updateContent computes the diff and fills
\* pendingBlocks, the message handler is registered
UnitShow ==
    /\ "provider" \notin ran
    /\ \E p \in diffLines(content1, content2) :
          /\ changes' = p
          /\ blocks' = computeDiffOn(p)
          /\ single' = [single EXCEPT !.pendingBlocks = NonContextIds(computeDiffOn(p)),
                                      !.panelOpen = TRUE]
    /\ ran' = ran \cup {"provider"}
    /\ UNCHANGED <<content1, content2, panelBlocks, related, store, loop>>
    /\ UNCHANGED <<fileVars, reviewVars>>

\* what follows the loop of a handler: postMessage on the panel the handler
\* was registered on (thrown: it threw), then onAllBlocksProcessed is awaited
AfterUnitLoop(sp, t, thrown) ==
    LET rest == sp.handlers (-) SetToBag({t})
    IN  IF thrown THEN [sp EXCEPT !.handlers = rest]
        ELSE IF t.all
        THEN [sp EXCEPT !.pendingBlocks = {},
                        !.handlers = rest (+) SetToBag({[t EXCEPT !.pc = "processed"]})]
        ELSE IF sp.pendingBlocks = {}
        THEN [sp EXCEPT !.handlers = rest (+) SetToBag({[t EXCEPT !.pc = "processed"]})]
        ELSE [sp EXCEPT !.handlers = rest]

UnitMayThrow == IF single.panelOpen THEN {FALSE} ELSE {TRUE, FALSE}

\* the webview posts a message; the handler runs to its first await
UnitReceive(type, blockId) ==
    /\ "provider" \in ran
    /\ single.panelOpen
    /\ single.msgs < MaxMsgs
    /\ LET sp == [single EXCEPT !.msgs = @ + 1]
           group == IdSeq(findRelatedBlocks(TRUE, blocks, blockId))
       IN  IF type \in {"approve", "deny"}
           THEN single' = IF group = <<>> THEN sp
                          ELSE [sp EXCEPT !.handlers = @ (+) SetToBag(
                                   {UnitTask(type, FALSE, Head(group), Tail(group), "block")})]
           ELSE IF sp.pendingBlocks = {}
           THEN LET t == UnitTask(type, TRUE, -1, <<>>, "block")
                IN  single' = AfterUnitLoop([sp EXCEPT !.handlers = @ (+) SetToBag({t})],
                                            t, FALSE)
           ELSE single' = [sp EXCEPT !.handlers = @ (+) SetToBag(
                              {UnitTask(type, TRUE, MinOf(sp.pendingBlocks), <<>>, "block")})]
    /\ UNCHANGED <<ran, content1, content2, changes, blocks, panelBlocks, related, store, loop>>
    /\ UNCHANGED <<fileVars, reviewVars>>

\* the awaited onBlockApprove of a handler settles
UnitResume(t, resolved, thrown) ==
    /\ BagIn(t, single.handlers)
    /\ t.pc = "block"
    /\ thrown \in UnitMayThrow
    /\ LET others == single.handlers (-) SetToBag({t})
           u  == [t EXCEPT !.done = @ \cup {t.cur}]
           sp == IF t.all THEN single
                 ELSE [single EXCEPT !.pendingBlocks = @ \ {t.cur}]
           more == {b \in single.pendingBlocks : b > t.cur}
       IN  IF ~resolved THEN single' = [single EXCEPT !.handlers = others]
           ELSE IF ~t.all /\ t.rest # <<>>
           THEN single' = [sp EXCEPT !.handlers = others (+) SetToBag(
                              {[u EXCEPT !.cur = Head(t.rest), !.rest = Tail(t.rest)]})]
           ELSE IF t.all /\ more # {}
           THEN single' = [sp EXCEPT !.handlers = others (+) SetToBag(
                              {[u EXCEPT !.cur = MinOf(more)]})]
           ELSE single' = AfterUnitLoop(
                              [sp EXCEPT !.handlers = others (+) SetToBag({u})], u, thrown)
    /\ UNCHANGED <<ran, content1, content2, changes, blocks, panelBlocks, related, store, loop>>
    /\ UNCHANGED <<fileVars, reviewVars>>

\* the awaited onAllBlocksProcessed settles; on success dispose() follows
UnitProcessed(t, resolved) ==
    /\ BagIn(t, single.handlers)
    /\ t.pc = "processed"
    /\ single' = [single EXCEPT !.handlers = @ (-) SetToBag({t}),
                                !.panelOpen = IF resolved THEN FALSE ELSE @]
    /\ UNCHANGED <<ran, content1, content2, changes, blocks, panelBlocks, related, store, loop>>
    /\ UNCHANGED <<fileVars, reviewVars>>

\* the user closes the panel: onDidDispose calls dispose()
UnitClose ==
    /\ single.panelOpen
    /\ single' = [single EXCEPT !.panelOpen = FALSE]
    /\ UNCHANGED <<ran, content1, content2, changes, blocks, panelBlocks, related, store, loop>>
    /\ UNCHANGED <<fileVars, reviewVars>>

NextUnit ==
    \/ UnitShow
    \/ \E type \in MessageTypes, b \in 0..MaxGroupId : UnitReceive(type, b)
    \/ \E t \in BagToSet(single.handlers), r \in BOOLEAN, thrown \in BOOLEAN :
          UnitResume(t, r, thrown)
    \/ \E t \in BagToSet(single.handlers), r \in BOOLEAN : UnitProcessed(t, r)
    \/ UnitClose

SpecUnit == InitUnit /\ [][NextUnit]_vars

-----------------------------------------------------------------------------
(* Specification SpecStore: the checkpoint service (ShadowCheckpoint.md,    *)
(* saveCheckpoint and checkpointDiff of the diff viewer documentation).     *)
(* Revisions are numbered in the order they are committed; the workspace    *)
(* holds StorePaths.  Where the documentation elides the code ("// ..."),   *)
(* the operation is taken from the specification of CheckpointStore.        *)

\* the elements of a sequence
Elems(q) == {q[i] : i \in DOMAIN q}

\* git commit after git add: no commit when nothing changed
Committed(st) == st.tree # st.trees[st.head]

\* stage all, commit: the new commit becomes HEAD; nothing happens when the
\* working tree equals HEAD
CommitAll(st) ==
    IF Committed(st)
    THEN [st EXCEPT !.trees = Append(@, st.tree), !.head = Len(st.trees) + 1]
    ELSE st

\* setLastVerifiedCheckpoint writes the field and leaves the git config alone
setLastVerifiedCheckpointInMemory(st, hash) == [st EXCEPT !.lastVerifiedCheckpoint = hash]

\* setLastVerifiedCheckpoint(hash): the field and the git config are written
\* together
setLastVerifiedCheckpoint(st, hash) ==
    [st EXCEPT !.lastVerifiedCheckpoint = hash, !.config = hash]

\* the service after getVerifiedCheckpoint: an undefined field is read from
\* the git config
Hydrated(st) ==
    IF st.lastVerifiedCheckpoint = 0
    THEN [st EXCEPT !.lastVerifiedCheckpoint = st.config]
    ELSE st

\* getVerifiedCheckpoint()
getVerifiedCheckpoint(st) == Hydrated(st).lastVerifiedCheckpoint

\* resetVerifiedCheckpoint()
resetVerifiedCheckpoint(st) == setLastVerifiedCheckpoint(st, 0)

\* saveCheckpoint sets the verified checkpoint after every commit
saveCheckpointAlwaysVerifying(st) ==
    LET isFirst  == st.checkpoints = <<>>
        commit   == Committed(st)
        fromHash == st.head
        done     == CommitAll(st)
        toHash   == done.head
        res      == [op |-> "save", revision |-> toHash, isFirst |-> isFirst,
                     fromRevision |-> fromHash]
    IN  IF isFirst \/ commit
        THEN setLastVerifiedCheckpoint(
                 [done EXCEPT !.events = Append(@, [type |-> "checkpoint", isFirst |-> isFirst,
                                                    fromHash |-> fromHash, toHash |-> toHash]),
                              !.checkpoints = Append(@, toHash),
                              !.result = res], toHash)
        ELSE [done EXCEPT !.result = res]

\* saveCheckpoint(message)
saveCheckpoint(st) ==
    LET isFirst  == st.checkpoints = <<>>
        commit   == Committed(st)
        fromHash == st.head
        done     == CommitAll(st)
        toHash   == done.head
        res      == [op |-> "save", revision |-> toHash, isFirst |-> isFirst,
                     fromRevision |-> fromHash]
    IN  IF isFirst \/ commit
        THEN LET emitted == [done EXCEPT
                                !.events = Append(@, [type |-> "checkpoint", isFirst |-> isFirst,
                                                      fromHash |-> fromHash, toHash |-> toHash]),
                                !.checkpoints = Append(@, toHash),
                                !.result = res]
             IN  IF isFirst \/ st.lastVerifiedCheckpoint = 0
                 THEN setLastVerifiedCheckpoint(emitted, toHash)
                 ELSE emitted
        ELSE [done EXCEPT !.result = res]

\* the position of revision r in the checkpoint list (0: not in the list)
IndexOf(q, r) ==
    IF r \in Elems(q) THEN CHOOSE i \in DOMAIN q : q[i] = r /\ \A j \in 1..(i - 1) : q[j] # r
    ELSE 0

\* restoreCheckpoint keeps the whole checkpoint list
restoreCheckpointKeeping(st, commitHash) ==
    IF IndexOf(st.checkpoints, commitHash) = 0
    THEN [st EXCEPT !.events = Append(@, [type |-> "error", operation |-> "restore"]),
                    !.result = [op |-> "restore", revision |-> commitHash,
                                error |-> "UnknownCheckpointError"]]
    ELSE [st EXCEPT !.tree = st.trees[commitHash],
                    !.head = commitHash,
                    !.events = Append(@, [type |-> "restore", commitHash |-> commitHash]),
                    !.result = [op |-> "restore", revision |-> commitHash, error |-> "none"]]

\* restoreCheckpoint(commitHash): clean, reset --hard, cut the checkpoint list
\* behind commitHash, emit restore
restoreCheckpoint(st, commitHash) ==
    LET i == IndexOf(st.checkpoints, commitHash)
    IN  IF i = 0
        THEN [st EXCEPT !.events = Append(@, [type |-> "error", operation |-> "restore"]),
                        !.result = [op |-> "restore", revision |-> commitHash,
                                    error |-> "UnknownCheckpointError"]]
        ELSE [st EXCEPT !.tree = st.trees[commitHash],
                        !.head = commitHash,
                        !.checkpoints = SubSeq(@, 1, i),
                        !.events = Append(@, [type |-> "restore", commitHash |-> commitHash]),
                        !.result = [op |-> "restore", revision |-> commitHash, error |-> "none"]]

\* getDiff between a commit and the working tree: one entry per changed file
getDiff(st, hash) ==
    {[path |-> p, before |-> st.trees[hash][p], after |-> st.tree[p]] :
        p \in {q \in StorePaths : st.trees[hash][q] # st.tree[q]}}

\* the information message checkpointDiff shows when there is no verified
\* checkpoint
NoCheckpointMessage == "No checkpoint hash available for diff view."

\* checkpointDiff runs getDiff without looking for a verified checkpoint
checkpointDiffUnguarded(st, given) ==
    LET commitHash == IF given = 0 THEN BaseHash ELSE given
        found      == getDiff(st, commitHash)
    IN  [st EXCEPT !.result = [op |-> "diff", given |-> given, commitHash |-> commitHash,
                               shown |-> "", changes |-> found],
                   !.activeViews = Append(@, Cardinality(found)),
                   !.opened = Append(@, Cardinality(found))]

\* Cline.checkpointDiff({commitHash}); given = 0 stands for no commitHash or
\* "HEAD"
checkpointDiff(st, given) ==
    LET verifiedCheckpoint == getVerifiedCheckpoint(st)
        read               == IF given = 0 THEN Hydrated(st) ELSE st
    IN  IF given = 0 /\ verifiedCheckpoint = 0
        THEN [read EXCEPT !.result = [op |-> "diff", given |-> given, commitHash |-> 0,
                                      shown |-> NoCheckpointMessage, changes |-> {}]]
        ELSE LET commitHash == IF given = 0 THEN verifiedCheckpoint ELSE given
                 found      == getDiff(st, commitHash)
             IN  [read EXCEPT !.result = [op |-> "diff", given |-> given,
                                          commitHash |-> commitHash,
                                          shown |-> "", changes |-> found],
                              !.activeViews = Append(@, Cardinality(found)),
                              !.opened = Append(@, Cardinality(found))]

\* a diff view closes and the cleanup resets the verified checkpoint whatever
\* the count of open views is
viewClosedResetting(st, i) ==
    [resetVerifiedCheckpoint(st) EXCEPT
        !.activeViews[i] = @ - 1,
        !.result = [op |-> "close", call |-> i, reset |-> TRUE]]

\* a diff view of the i-th checkpointDiff call closes: activeViews of that
\* call goes down by one, and at 0 the cleanup resets the verified checkpoint
viewClosed(st, i) ==
    LET left == st.activeViews[i] - 1
        less == [st EXCEPT !.activeViews[i] = left,
                           !.result = [op |-> "close", call |-> i, reset |-> left = 0]]
    IN  IF left = 0 THEN resetVerifiedCheckpoint(less) ELSE less

\* the extension host starts again: the fields of the service are lost, the
\* shadow repository and its git config stay
restart(st) ==
    [st EXCEPT !.lastVerifiedCheckpoint = 0,
               !.checkpoints = <<>>,
               !.activeViews = <<>>,
               !.opened = <<>>,
               !.result = [op |-> "restart"]]

\* the revisions a caller may name: those committed so far and one that was
\* never committed
Revisions(st) == 1..(Len(st.trees) + 1)

InitStore ==
    /\ IdleDiff
    /\ IdleFile
    /\ IdlePanel
    /\ file1 = <<>>
    /\ file2 = <<>>

StoreStep(st) ==
    /\ store' = [st EXCEPT !.nops = store.nops + 1]
    /\ UNCHANGED <<ran, content1, content2, changes, blocks, panelBlocks, related, single, loop>>
    /\ UNCHANGED <<fileVars, reviewVars>>

\* the agent or the user writes content c to the tracked file p
EditFile(p, c) ==
    /\ store.tree[p] # c
    /\ store' = [store EXCEPT !.tree[p] = c]
    /\ UNCHANGED <<ran, content1, content2, changes, blocks, panelBlocks, related, single, loop>>
    /\ UNCHANGED <<fileVars, reviewVars>>

SaveCheckpoint ==
    /\ store.nops < MaxStoreOps
    /\ StoreStep(saveCheckpoint(store))

RestoreCheckpoint(commitHash) ==
    /\ store.nops < MaxStoreOps
    /\ StoreStep(restoreCheckpoint(store, commitHash))

ResetVerifiedCheckpoint ==
    /\ store.nops < MaxStoreOps
    /\ StoreStep([resetVerifiedCheckpoint(store) EXCEPT !.result = [op |-> "reset"]])

\* setVerifiedCheckpoint(revision), with a revision that save returned
SetVerifiedCheckpoint(hash) ==
    /\ store.nops < MaxStoreOps
    /\ hash \in Elems(store.checkpoints)
    /\ StoreStep([setLastVerifiedCheckpoint(store, hash) EXCEPT !.result = [op |-> "set"]])

CheckpointDiff(given) ==
    /\ store.nops < MaxStoreOps
    /\ given \in 0..Len(store.trees)
    /\ StoreStep(checkpointDiff(store, given))

\* a diff view of the i-th checkpointDiff call is closed
ViewClosed(i) ==
    /\ store.nops < MaxStoreOps
    /\ i \in DOMAIN store.activeViews
    /\ store.activeViews[i] > 0
    /\ StoreStep(viewClosed(store, i))

NextStore ==
    \/ \E i \in 1..MaxStoreOps : ViewClosed(i)
    \/ \E p \in StorePaths, c \in StoreContents : EditFile(p, c)
    \/ SaveCheckpoint
    \/ \E r \in Revisions(store) : RestoreCheckpoint(r)
    \/ ResetVerifiedCheckpoint
    \/ \E r \in Revisions(store) : SetVerifiedCheckpoint(r)
    \/ \E g \in 0..MaxStoreOps : CheckpointDiff(g)

SpecStore == InitStore /\ [][NextStore]_vars

\* the extension host is started again
Restart ==
    /\ store.nops < MaxStoreOps
    /\ StoreStep(restart(store))

\* getVerifiedCheckpoint() is called; fromConfig tells that the field was
\* undefined and the git config was read
GetVerifiedCheckpoint ==
    /\ store.nops < MaxStoreOps
    /\ StoreStep([Hydrated(store) EXCEPT
                     !.result = [op |-> "get", revision |-> getVerifiedCheckpoint(store),
                                 fromConfig |-> store.lastVerifiedCheckpoint = 0]])

NextPersist ==
    \/ NextStore
    \/ Restart
    \/ GetVerifiedCheckpoint

\* Specification SpecPersist: the checkpoint service over several runs of
\* the extension host
SpecPersist == InitStore /\ [][NextPersist]_vars

-----------------------------------------------------------------------------
(* Properties of DiffFile sessions *)

\* ids of the non-context blocks a webview shows
ShownNonContext(file) ==
    {file.shown[k].id : k \in {j \in 1..Len(file.shown) : file.shown[j].type # "context"}}

\* C9: in every DiffFile, whatever shows, approvals, denials, bulk actions and
\* panel closes have happened, pending holds only ids of non-context blocks of
\* the most recently computed diff.
C9_PendingSubset ==
    \A f \in DOMAIN files : files[f].pendingBlocks \subseteq ShownNonContext(files[f])

\* C9 witness: a DiffFile was loaded twice and part of its second diff has
\* been processed while another part is still pending.
C9_Witness ==
    \E f \in DOMAIN files :
        /\ files[f].before # {}
        /\ files[f].pendingBlocks # {}
        /\ files[f].pendingBlocks # ShownNonContext(files[f])
        /\ nmsgs >= 1

\* C10: the completion signal of a DiffFile fires at most once (however the
\* approve, deny, approveAll, denyAll handlers and the dispose callback
\* interleave) and hasCalledAllBlocksProcessed never returns from true to false.
C10_CompletesOnce ==
    /\ [](\A f \in DOMAIN files : files[f].completions <= 1)
    /\ [][\A f \in DOMAIN files \cap DOMAIN files' :
             files[f].hasCalledAllBlocksProcessed => files'[f].hasCalledAllBlocksProcessed]_vars

\* C10 witness: a DiffFile has signalled completion once and a later handler
\* found pending empty again and skipped the signal.
C10_Witness ==
    \E f \in DOMAIN files :
        /\ files[f].completions = 1
        /\ files[f].hasCalledAllBlocksProcessed
        /\ files[f].skipped

\* C8: a successful load leaves pending equal to the set of ids of all
\* non-context blocks of the diff just computed, whatever pending held before:
\* in DiffFile when show resumes from updateContent, in DiffApprovePanel when
\* the getContent handler resumes with a diff loaded.
C8_LoadResetsPending ==
    /\ [][\A t \in BagToSet(tasks), bs \in SessionDiffs :
             ShowResume(t, TRUE, bs) =>
                 files'[t.file].pendingBlocks =
                     {bs[k].id : k \in {j \in 1..Len(bs) : bs[j].type # "context"}}]_vars
    /\ [][\A t \in BagToSet(panelTasks) :
             (/\ t.kind = "getContent"
              /\ reviewPanels[t.inst].loaded
              /\ PanelAfterLoad(t, FALSE)
              /\ t.inst \in DOMAIN reviewPanels') =>
                 LET me == reviewPanels'[t.inst]
                 IN  me.pendingBlocks =
                         {me.blocks[k].id :
                             k \in {j \in 1..Len(me.blocks) : me.blocks[j].type # "context"}}]_vars

\* C8 witness: a DiffFile whose pending set was non-empty has just been
\* loaded again and now holds a different set, the non-context ids of the
\* new diff.
C8_Witness ==
    \E f \in DOMAIN files :
        /\ files[f].before # {}
        /\ files[f].before # files[f].pendingBlocks
        /\ files[f].pendingBlocks = ShownNonContext(files[f])

\* C11: closing a DiffFile panel while blocks are pending does not set
\* hasCalledAllBlocksProcessed and does not invoke onAllBlocksProcessed (the
\* call that also adds the file to approvedFiles), neither in the step that
\* closes the panel nor in any later step of that DiffFile before its next load.
C11_CancelNotApproved ==
    [][\A f \in DOMAIN files \cap DOMAIN files' :
          files'[f].cancelled =>
              /\ files'[f].hasCalledAllBlocksProcessed = files[f].hasCalledAllBlocksProcessed
              /\ files'[f].completions = files[f].completions]_vars

\* C12: a review that show() opens starts fresh, also on a path whose earlier
\* review is still registered: when show resumes with the new diff loaded,
\* pending is the set of its non-context ids and the completion signal of the
\* DiffFile has not fired, so that processing the blocks can fire it.
C12_FreshReview ==
    [][\A t \in BagToSet(tasks), bs \in SessionDiffs :
          ShowResume(t, TRUE, bs) =>
              /\ files'[t.file].pendingBlocks =
                     {bs[k].id : k \in {j \in 1..Len(bs) : bs[j].type # "context"}}
              /\ ~files'[t.file].hasCalledAllBlocksProcessed]_vars

\* ids of the non-context blocks a DiffApprovePanel holds
PanelNonContext(me) ==
    {me.blocks[k].id : k \in {j \in 1..Len(me.blocks) : me.blocks[j].type # "context"}}

\* C13 (DiffFile): an approve or deny message for a non-context block that
\* has already left pending starts no call of onBlockApprove.
C13_FileNoSecondCall ==
    [][\A p \in DOMAIN panels, type \in {"approve", "deny"}, b \in 0..MaxBlockId :
          (/\ ReceiveMessage(p, type, b)
           /\ b \in ShownNonContext(files[panels[p].file])
           /\ b \notin files[panels[p].file].pendingBlocks) => tasks' = tasks]_vars

\* C13 (DiffApprovePanel): a deny for a block that an approve has taken out of
\* pending does not rewrite the modified file.
C13_PanelNoSecondRewrite ==
    [][\A i \in DOMAIN reviewPanels, b \in 0..MaxBlockId, ok \in BOOLEAN :
          (/\ PanelReceive(i, "approve", b, "deny", "ok", ok)
           /\ b \in reviewPanels[i].approved) => file2' = file2]_vars

\* C13: once a block id has left pending, a later approve or deny of the same
\* id has no effect, neither in DiffFile nor in DiffApprovePanel.
C13_NoDoubleProcessing == C13_FileNoSecondCall /\ C13_PanelNoSecondRewrite

\* panel i holds a freshly loaded diff: getContent is the one message handled
\* so far, and the files are as they were read
FreshlyLoaded(i) ==
    /\ npanelmsgs = 1
    /\ reviewPanels[i].loaded
    /\ ~reviewPanels[i].disposed

\* C14: denyAll on a freshly loaded diff leaves pending empty and the modified
\* file equal to the original line for line, so that the diff of the two has
\* no non-context block.
C14_DenyAllReverts ==
    [][\A i \in DOMAIN reviewPanels :
          (FreshlyLoaded(i) /\ EditMessage(i, "denyAll", 0, "deny")) =>
              /\ i \in DOMAIN reviewPanels'
              /\ reviewPanels'[i].pendingBlocks = {}
              /\ Split(file2') = Split(file1)
              /\ PanelNonContext([blocks |-> Panel_computeDiff(file1, file2')]) = {}]_vars

\* the block that _handleApproval finds for blockId: the first with that id
FirstBlock(bs, blockId) == bs[CHOOSE k \in FindBlock(bs, blockId) : \A l \in FindBlock(bs, blockId) : k <= l]

\* C15: a single deny of a non-context block b of a freshly loaded diff
\* rewrites the modified file to the loaded new-side lines with the range
\* that starts at b.newStart and is Len(b.newLines) long replaced by
\* b.oldLines; the lines before and after the range are kept in order.
C15_DenyRewritesRange ==
    [][\A i \in DOMAIN reviewPanels : \A id \in 0..MaxBlockId :
          (/\ FreshlyLoaded(i)
           /\ FindBlock(reviewPanels[i].blocks, id) # {}
           /\ FirstBlock(reviewPanels[i].blocks, id).type # "context"
           /\ EditMessage(i, "approve", id, "deny")) =>
              LET b  == FirstBlock(reviewPanels[i].blocks, id)
                  ls == Split(file2)
                  n  == Len(b.newLines)
              IN  Split(file2') = SubSeq(ls, 1, b.newStart - 1) \o b.oldLines
                                    \o SubSeq(ls, b.newStart + n, Len(ls))]_vars

\* a single deny has rewritten the modified file and other blocks are pending
C15_Witness ==
    \E i \in DOMAIN reviewPanels :
        /\ npanelmsgs = 2
        /\ reviewPanels[i].loaded
        /\ reviewPanels[i].reverts \in {<<"addition">>, <<"deletion">>, <<"change">>}
        /\ reviewPanels[i].pendingBlocks # {}
        /\ file2 # file1

\* C16: after a successful single deny the blocks are the diff recomputed
\* from the files on disk and pending is exactly the set of non-context ids of
\* that recomputed diff.
C16_DenyReloadsSession ==
    [][\A i \in DOMAIN reviewPanels : \A id \in 0..MaxBlockId :
          (/\ reviewPanels[i].loaded
           /\ FindBlock(reviewPanels[i].blocks, id) # {}
           /\ EditMessage(i, "approve", id, "deny")) =>
              /\ i \in DOMAIN reviewPanels'
              /\ reviewPanels'[i].blocks = Panel_computeDiff(file1', file2')
              /\ reviewPanels'[i].pendingBlocks = PanelNonContext(reviewPanels'[i])]_vars

\* C17: an approve of a block of the loaded diff takes its id out of pending,
\* an approveAll empties pending, and neither changes the modified file or the
\* computed blocks.
C17_ApproveKeepsContent ==
    [][\A i \in DOMAIN reviewPanels : \A io \in IoOutcomes : \A readOk \in BOOLEAN :
          /\ \A id \in 0..MaxBlockId :
                (/\ FindBlock(reviewPanels[i].blocks, id) # {}
                 /\ PanelReceive(i, "approve", id, "approve", io, readOk)) =>
                    /\ file2' = file2
                    /\ i \in DOMAIN reviewPanels'
                    /\ reviewPanels'[i].blocks = reviewPanels[i].blocks
                    /\ reviewPanels'[i].pendingBlocks = reviewPanels[i].pendingBlocks \ {id}
          /\ \A id \in 0..MaxBlockId : \A action \in {"approve", "deny"} :
                PanelReceive(i, "approveAll", id, action, io, readOk) =>
                    /\ file2' = file2
                    /\ i \in DOMAIN reviewPanels'
                    /\ reviewPanels'[i].blocks = reviewPanels[i].blocks
                    /\ reviewPanels'[i].pendingBlocks = {}]_vars

\* an approve has taken a pending id out while the modified file still differs
\* from the original
C17_Witness ==
    \E i \in DOMAIN reviewPanels :
        /\ reviewPanels[i].loaded
        /\ reviewPanels[i].approved # {}
        /\ reviewPanels[i].reverts = <<>>
        /\ PanelNonContext(reviewPanels[i]) # {}
        /\ reviewPanels[i].blocks = Panel_computeDiff(file1, file2)

\* the pairs <<x, y>> of ids of a deletion block immediately followed by an
\* addition block in the diff that file shows
SplitEdits(file) ==
    {<<file.shown[k].id, file.shown[k + 1].id>> :
        k \in {j \in 1..(Len(file.shown) - 1) :
                  file.shown[j].type = "deletion" /\ file.shown[j + 1].type = "addition"}}

\* C18: when a deletion block is immediately followed by an addition block,
\* the approve or deny of either id is resolved for both: once the awaited
\* onBlockApprove of the handler has settled and the handler has taken its
\* blocks out of pending, neither id of the pair is pending.
C18_GroupResolvedAsUnit ==
    [][\A t \in BagToSet(tasks) :
          (/\ t.pc = "awaitBlock"
           /\ ResumeBlock(t, TRUE)
           /\ t.file \in DOMAIN files') =>
              \A e \in SplitEdits(files[t.file]) :
                  (/\ t.blockId \in {e[1], e[2]}
                   /\ {e[1], e[2]} \subseteq files[t.file].pendingBlocks)
                  => files'[t.file].pendingBlocks \cap {e[1], e[2]} = {}]_vars

\* the ids of the blocks of a list
IdsOf(bs) == {bs[k].id : k \in 1..Len(bs)}

\* r is a run of consecutive blocks of bs that a context block or the end of
\* the list bounds on each side
MaximalRun(bs, r) ==
    \E a \in 1..Len(bs) : \E b \in a..Len(bs) :
        /\ r = SubSeq(bs, a, b)
        /\ a = 1 \/ bs[a - 1].type = "context"
        /\ b = Len(bs) \/ bs[b + 1].type = "context"

\* C19: for every non-context block id x of a diff, the scanning
\* findRelatedBlocks(x) contains x, holds non-context blocks only, is a maximal
\* contiguous run of the block list, and findRelatedBlocks(y) is the same list
\* for every member y of it.
C19_RelatedGroup ==
    \A q \in related :
        (\E k \in 1..Len(blocks) : blocks[k].id = q.id /\ blocks[k].type # "context") =>
            /\ q.id \in IdsOf(q.result)
            /\ \A k \in 1..Len(q.result) : q.result[k].type # "context"
            /\ MaximalRun(blocks, q.result)
            /\ \A q2 \in related : q2.id \in IdsOf(q.result) => q2.result = q.result

\* findRelatedBlocks was called on both ids of a deletion block immediately
\* followed by an addition block
C19_Witness ==
    \E q \in related : \E q2 \in related :
        /\ q.id # q2.id
        /\ Len(q.result) = 2
        /\ q.result[1].type = "deletion" /\ q.result[2].type = "addition"
        /\ {q.id, q2.id} = IdsOf(q.result)

\* the ids an approveAll/denyAll loop owes an onBlockApprove call after the
\* one it is waiting for: those pending at receipt and larger than the last
Owed(t) == {y \in t.start : y > t.last}

\* C20: approveAll/denyAll calls onBlockApprove once for each id that was
\* pending when the message was received, in ascending order, and for no
\* other id, whatever other handlers run while it is suspended: when an
\* awaited call settles, the loop goes on with the smallest owed id, and it
\* ends only when no id is owed.
C20_AllOverReceiptSnapshot ==
    [][\A t \in BagToSet(tasks) :
          (t.pc = "awaitIter" /\ ResumeIter(t, TRUE)) =>
              IF Owed(t) # {}
              THEN BagIn([t EXCEPT !.last = MinOf(Owed(t))], tasks')
              ELSE \A m \in 0..MaxGroupId :
                      m > t.last => ~BagIn([t EXCEPT !.last = m], tasks')]_vars

\* C21 for DiffFile: when the awaited onBlockApprove of an approve, deny,
\* approveAll or denyAll handler rejects, pending is as it was and the session
\* is not completed by that step.
C21_FileFailureKeepsPending ==
    [][\A t \in BagToSet(tasks) :
          ((t.pc = "awaitBlock" /\ ResumeBlock(t, FALSE))
             \/ (t.pc = "awaitIter" /\ ResumeIter(t, FALSE))) =>
              /\ t.file \in DOMAIN files' =>
                    /\ files'[t.file].pendingBlocks = files[t.file].pendingBlocks
                    /\ files'[t.file].completions = files[t.file].completions
              /\ approvedFiles' = approvedFiles]_vars

\* C21 for DiffApprovePanel: a block whose deny threw on the read or the write
\* of the modified file stays pending, after a single deny and after denyAll.
C21_PanelFailureKeepsPending ==
    \A i \in DOMAIN reviewPanels : reviewPanels[i].failed \subseteq reviewPanels[i].pendingBlocks

\* C21: a deny that fails leaves its block pending and does not complete the
\* session, in DiffFile and in DiffApprovePanel, for a single deny and for
\* each failing block inside denyAll.
C21_FailedDenyStaysPending ==
    C21_FileFailureKeepsPending /\ []C21_PanelFailureKeepsPending

\* C22: deny of a related group is atomic: when the revert of one member
\* fails (its onBlockApprove rejects), no member of the group has been
\* reverted or taken out of pending by the handler.
C22_GroupDenyAtomic ==
    [][\A t \in BagToSet(single.handlers) :
          (/\ t.type = "deny"
           /\ ~t.all
           /\ t.pc = "block"
           /\ \E thrown \in BOOLEAN : UnitResume(t, FALSE, thrown)) =>
              \A m \in t.done \cup {t.cur} \cup {t.rest[k] : k \in 1..Len(t.rest)} :
                  m \notin t.done /\ (m \in NonContextIds(blocks) => m \in single'.pendingBlocks)]_vars

\* the message handlers of DiffFile f that are suspended at an await
SuspendedHandlers(f) ==
    {t \in BagToSet(tasks) : t.file = f /\ t.pc \in {"awaitBlock", "awaitIter", "awaitAll"}}

\* an approve and a deny of one block of one session are both in progress
ApproveDenyOverlap ==
    \E t \in BagToSet(tasks) : \E u \in BagToSet(tasks) :
        /\ t.file = u.file /\ t.blockId = u.blockId
        /\ t.pc = "awaitBlock" /\ u.pc = "awaitBlock"
        /\ t.kind = "approve" /\ u.kind = "deny"

\* C23: message handling within one DiffFile session is serialized: no
\* approve, deny, approveAll or denyAll handler starts while an earlier handler
\* of the session is suspended awaiting onBlockApprove or onAllBlocksProcessed,
\* so an approve and a deny of the same block are never both in progress.
C23_HandlersSerialized ==
    /\ [][\A p \in DOMAIN panels : \A type \in MessageTypes : \A b \in 0..MaxBlockId :
             ReceiveMessage(p, type, b) => SuspendedHandlers(panels[p].file) = {}]_vars
    /\ [](~ApproveDenyOverlap)

\* the open review panels of the sessions for a working-file path
OpenPanelsOf(path) ==
    {q \in DOMAIN panels : panels[q].file \in DOMAIN files /\ files[panels[q].file].filePath = path}

\* C24: each working-file path has at most one registered DiffFile and at
\* most one open review panel; a show() for a path with an open session
\* reuses it and opens no second panel.
C24_NoDuplicateSessions ==
    \A path \in Paths :
        /\ Cardinality({f \in DOMAIN files : files[f].filePath = path
                                              /\ activeFiles[path] = f}) <= 1
        /\ Cardinality(OpenPanelsOf(path)) <= 1

Resolved(f) ==
    /\ f \in DOMAIN files
    /\ files[f].panel # 0
    /\ NonContextIds(files[f].shown) # {}
    /\ files[f].pendingBlocks = {}

\* DiffFile f is retired: its panel is disposed and it is not registered
Retired(f) ==
    \/ f \notin DOMAIN files
    \/ /\ files[f].panel = 0
       /\ activeFiles[files[f].filePath] # f

\* C26: whenever the pending set of a DiffFile session becomes empty through
\* approve, deny, approveAll or denyAll, the session is eventually retired
\* (panel disposed, path removed from activeFiles), whether or not
\* onAllBlocksProcessed succeeds.
C26_ResolvedEventuallyRetired ==
    \A f \in 1..MaxShows : Resolved(f) ~> Retired(f)

\* this step is a call of saveCheckpoint
SaveStep == store'.nops = store.nops + 1 /\ store'.result.op = "save"

C28_NoOpSaveIsSilent ==
    [][(SaveStep /\ ~Committed(store)) =>
          /\ store'.result.revision = store.head
          /\ store'.events = store.events
          /\ getVerifiedCheckpoint(store') = getVerifiedCheckpoint(store)]_vars

\* this step is a call of checkpointDiff
DiffStep == store'.nops = store.nops + 1 /\ store'.result.op = "diff"

RestoreStep == store'.nops = store.nops + 1 /\ store'.result.op = "restore"

\* C30: restore(r) succeeds only for a revision r of the checkpoint list; it
\* then cuts the list so that r is its last element (the checkpoints created
\* after r are gone from it) and emits a restore event; for any other
\* revision, never returned by save or dropped by an earlier restore, it
\* fails with UnknownCheckpointError and leaves the checkpoint list and the
\* verified checkpoint unchanged.
C30_RestoreTruncates ==
    [][RestoreStep =>
          LET r == store'.result.revision
              i == IndexOf(store.checkpoints, r)
          IN  IF r \in Elems(store.checkpoints)
              THEN /\ store'.result.error = "none"
                   /\ store'.checkpoints = SubSeq(store.checkpoints, 1, i)
                   /\ store'.checkpoints[Len(store'.checkpoints)] = r
                   /\ \A j \in (i + 1)..Len(store.checkpoints) :
                          store.checkpoints[j] \notin Elems(store'.checkpoints)
                   /\ store'.events = Append(store.events, [type |-> "restore", commitHash |-> r])
              ELSE /\ store'.result.error = "UnknownCheckpointError"
                   /\ store'.checkpoints = store.checkpoints
                   /\ getVerifiedCheckpoint(store') = getVerifiedCheckpoint(store)]_vars

\* a restore has dropped a checkpoint that an earlier save had created
C30_Witness ==
    /\ store.result.op = "restore"
    /\ store.result.error = "none"
    /\ \E i \in DOMAIN store.events :
          /\ store.events[i].type = "checkpoint"
          /\ store.events[i].toHash \notin Elems(store.checkpoints)

\* a restore of a revision that an earlier restore had dropped was refused
C30_DroppedWitness ==
    /\ store.result.op = "restore"
    /\ store.result.error = "UnknownCheckpointError"
    /\ \E i \in DOMAIN store.events :
          /\ store.events[i].type = "checkpoint"
          /\ store.events[i].toHash = store.result.revision

CloseStep == store'.nops = store.nops + 1 /\ store'.result.op = "close"

\* C32: for a checkpointDiff call that opened n diff views, the verified
\* checkpoint is reset when the last of the n views closes (its count of
\* active views reaches 0) and not by an earlier close; the next save that
\* creates a revision after that reset becomes the verified checkpoint.
C32_ResetAtLastClose ==
    [][/\ CloseStep =>
             IF store'.activeViews[store'.result.call] = 0
             THEN /\ store'.result.reset
                  /\ getVerifiedCheckpoint(store') = 0
             ELSE /\ ~store'.result.reset
                  /\ getVerifiedCheckpoint(store') = getVerifiedCheckpoint(store)
       /\ (/\ SaveStep
           /\ store.result.op = "close"
           /\ store.result.reset
           /\ Len(store'.trees) > Len(store.trees))
          => getVerifiedCheckpoint(store') = store'.result.revision]_vars

\* the second of two diff views has closed and the verified checkpoint, set
\* until then, is reset
C32_Witness ==
    /\ store.result.op = "close"
    /\ store.result.reset
    /\ store.opened[store.result.call] = 2
    /\ store.config = 0
    /\ \E i \in DOMAIN store.events : store.events[i].type = "checkpoint"

\* C33: a file is marked approved only when every non-context block of its
\* review was approved: a review in which a block was denied, by deny or by
\* denyAll, never puts its path into approvedFiles.
C33_DeniedNeverApproved ==
    [][\A f \in DOMAIN files \cap DOMAIN files' :
          (/\ files'[f].completions > files[f].completions
           /\ files'[f].filePath \in approvedFiles')
          => files'[f].denied = {}]_vars

\* C34: in DiffApprovePanel _openModifiedFile is called at most once in a
\* review, whatever approve, deny, approveAll and denyAll messages arrive,
\* also for a denyAll whose last deny has already emptied the pending set.
C34_OpensAtMostOnce ==
    \A i \in DOMAIN reviewPanels : reviewPanels[i].autoOpens <= 1

\* C35: in a DiffFile session onAllBlocksProcessed is invoked only when the
\* pending set is empty, and at that moment the file is in approvedFiles
\* (markFileAsApproved comes before the invocation on every path).
C35_InvokedWhenEmptyAndMarked ==
    [][\A f \in DOMAIN files \cap DOMAIN files' :
          files'[f].completions > files[f].completions
          => /\ files'[f].pendingBlocks = {}
             /\ files'[f].filePath \in approvedFiles']_vars

\* onAllBlocksProcessed has been invoked by a message handler and has not
\* settled yet
C35_Witness ==
    \E f \in DOMAIN files :
        /\ files[f].completions = 1
        /\ NonContextIds(files[f].shown) # {}
        /\ \E t \in BagToSet(tasks) : t.file = f /\ t.pc = "awaitAll"

\* the calls that this step has suspended at pc
Begun(pc) ==
    {t \in BagToSet(tasks') : t.pc = pc /\ CopiesIn(t, tasks') > CopiesIn(t, tasks)}

\* C36: in DiffFile an approve or deny message whose blockId is not the id of
\* a non-context block of the current diff invokes no onBlockApprove, leaves
\* the pending set unchanged and cannot complete the session.
C36_UnknownBlockIgnored ==
    [][/\ \A t \in Begun("awaitBlock") :
             t.file \in DOMAIN files => t.blockId \in NonContextIds(files[t.file].shown)
       /\ \A t \in Begun("awaitAll") :
             (t.kind \in {"approve", "deny"} /\ t.file \in DOMAIN files)
             => t.blockId \in NonContextIds(files[t.file].shown)]_vars

\* C37: the auto-close timer of a completed DiffFile session disposes only
\* the panel of the review that completed: a panel that a later show() opened
\* for the path before the timer fires stays open and keeps its message
\* listeners.
C37_TimerClosesOwnPanel ==
    [][\A f \in (timers \ timers') \cap DOMAIN files :
          \A p \in DOMAIN panels :
              (panels[p].file = f /\ p # files[f].armedPanel)
              => /\ p \in DOMAIN panels'
                 /\ panels'[p].wired = panels[p].wired]_vars

\* a step that is one pass through the loop body of _computeDiff
IterationStep == loop.pc = "running" /\ loop'.iterations = loop.iterations + 1

\* C38: DiffApprovePanel._computeDiff terminates on every pair of inputs:
\* every iteration of its main loop leaves neither index smaller and makes the
\* old-side index i or the new-side index j strictly larger (so a match point
\* is never the current position), neither index ever exceeds the number of
\* lines of its side, and the call returns.
C38_ComputeDiffTerminates ==
    /\ [][IterationStep =>
            /\ loop'.i >= loop.i /\ loop'.j >= loop.j
            /\ loop'.i > loop.i \/ loop'.j > loop.j
            /\ loop'.i <= Len(Split(content1))
            /\ loop'.j <= Len(Split(content2))]_vars
    /\ [](loop.i <= Len(Split(content1)) /\ loop.j <= Len(Split(content2)))
    /\ <>(loop.pc = "done")

\* a call that has returned after three or more iterations, one of which took
\* the match-point branch, with both indices at the end of their side
C38_Witness ==
    /\ loop.pc = "done"
    /\ loop.found
    /\ loop.iterations >= 3
    /\ loop.i = Len(Split(content1))
    /\ loop.j = Len(Split(content2))

=============================================================================
